---- MODULE Spec2Model ----
\* Model of rmesh-core's ConnectionManager: the request-correlation registries
\* (ack_waiters, route_waiters), the packet ingestion task and the shared
\* DeviceState cache (rmesh-core/src/connection/manager.rs, rmesh-core/src/state.rs).
EXTENDS Integers, Sequences, FiniteSets, TLC

\* ---------------------------------------------------------------- bounds

\* Correlation ids are u32 drawn by rand::random; the model draws them from 0..MaxId.
MaxId == 1
\* Number of text messages the cache holds before text envelopes stop arriving.
MaxMessages == 1
\* Channel indexes of the channel envelopes are 0..MaxChannel.
MaxChannel == 1

\* The wall clock advances MaxTicks times.
MaxTicks == 3
\* The message log holds at most MaxLog messages in the message runs.
MaxLog == 2
\* take_packet_receiver is called at most MaxTakes times after a connect.
MaxTakes == 2

Ids == 0..MaxId

\* request_position returns a cached position less than this many seconds old
\* without sending a request.
FreshSecs == 60

\* The wall clock (seconds since the Unix epoch) starts at Epoch and advances in
\* steps of the freshness threshold.
TickSecs == FreshSecs
Epoch == 10 * FreshSecs
MaxTime == Epoch + MaxTicks * TickSecs

\* The timeouts of the polling calls: the freshness threshold and twice as long.
Timeouts == {FreshSecs, 2 * FreshSecs}

\* ---------------------------------------------------------------- values

\* Option<T>: None is the empty tuple, Some(v) the one-element tuple. A String is
\* a tuple of string pieces, so that formatted text can be compared.
None == <<>>
Some(v) == <<v>>

\* HashMap::new(): the map without keys.
EmptyMap == [k \in {} |-> None]

\* Result<bool> / Result<Vec<RouteHop>> of the two correlated calls, and the
\* content of a oneshot channel: one record shape for both kinds.
NoOutcome == [tag |-> "none", ack |-> FALSE, hops |-> <<>>]
ErrOutcome == [tag |-> "err", ack |-> FALSE, hops |-> <<>>]
NotConnectedOutcome == [tag |-> "not_connected", ack |-> FALSE, hops |-> <<>>]
OkAck(b) == [tag |-> "ok", ack |-> b, hops |-> <<>>]
OkHops(h) == [tag |-> "ok", ack |-> FALSE, hops |-> h]
\* n counts the values the channel has accepted; by names the envelope whose
\* processing sent the value (its routing variant, or its port).
EmptySlot == [full |-> FALSE, ack |-> FALSE, hops |-> <<>>, n |-> 0, by |-> "-"]

VARIABLES
    api,              \* self.api.is_some()
    packet_processor, \* the ingestion task is running
    ack_waiters,      \* id -> sender; a sender is TRUE while its receiver is alive
    route_waiters,    \* id -> sender
    device_state,     \* the DeviceState behind the Arc<Mutex<..>>
    state_locked,     \* the ingestion task holds the DeviceState mutex
    now,              \* wall clock, seconds
    pc,               \* where the caller of the ConnectionManager is
    kind,             \* "ack" or "route": which call the current one is
    request_id,       \* request_id / packet_id of the current call
    rx,               \* the current call's oneshot receiver is alive
    slot,             \* content of the current call's oneshot channel
    outcome,          \* what the current call returned
    sent,             \* the current call's outbound send succeeded
    removed,          \* who took the current call's entry out of its registry, in order
    pre,              \* the ids in the current call's registry just before it registered
    hit,              \* an envelope carrying the current call's id was processed during it
    ipc,              \* where the ingestion task is inside one envelope
    cur,              \* the envelope the ingestion task is processing
    snap,             \* the last DeviceState returned by get_device_state
    snap_base,        \* the DeviceState as of the last whole envelope, at that call
    committed,        \* the DeviceState as of the last whole envelope
    last_node,        \* node number -> the last node-identity envelope processed for it
    last_channel,     \* the last channel envelope processed and the channels before it
    poll,             \* the request_position / collect_* call in progress, or the last one
    packet_receiver,  \* self.packet_receiver.is_some()
    last_call,        \* the last session operation that returned, and its result
    takes             \* take_packet_receiver calls since the last successful connect

vars == <<api, packet_processor, ack_waiters, route_waiters, device_state, state_locked,
          now, pc, kind, request_id, rx, slot, outcome, sent, removed, pre, hit, ipc,
          cur,
          snap, snap_base, committed, last_node, last_channel,
          poll, packet_receiver, last_call, takes>>

corrVars == <<ack_waiters, route_waiters, pc, kind, request_id, rx, slot, outcome, sent,
              removed, pre, hit>>
storeVars == <<device_state, state_locked, committed, last_node, last_channel>>
readerVars == <<snap, snap_base>>
opVars == <<poll, packet_receiver, last_call, takes>>

\* ---------------------------------------------------------------- DeviceState

\* DeviceState::new(): every collection empty, every Option None.
NewDeviceState ==
    [nodes |-> EmptyMap, channels |-> <<>>, my_node_info |-> None,
     positions |-> EmptyMap, messages |-> <<>>, telemetry |-> EmptyMap,
     configs |-> [c \in {"device", "position", "power", "network", "display", "lora",
                         "bluetooth"} |-> None]]

\* HashMap::insert: the value under key k is replaced, or the key is added.
MapInsert(m, k, v) == [x \in DOMAIN m \cup {k} |-> IF x = k THEN v ELSE m[x]]

\* ---------------------------------------------------------------- registries

\* waiters.insert(id, tx): an entry already under id is replaced (its sender dropped).
InsertWaiter(waiters, id, tx) == MapInsert(waiters, id, tx)

RemoveWaiterKeep(waiters, id) == waiters

\* waiters.remove(&id): remove if present.
RemoveWaiter(waiters, id) == [x \in DOMAIN waiters \ {id} |-> waiters[x]]

\* The receiver of the sender stored under id is alive. Calls take &mut self, so
\* only the call in progress has a live receiver.
Live(waiters, id) == id \in DOMAIN waiters /\ waiters[id]

\* The receiver of the sender stored under id, if any, is dropped.
DropReceiver(waiters, id) == [x \in DOMAIN waiters |-> waiters[x] /\ x # id]

\* sender.send(v) on the sender taken from under id: the value is stored unless the
\* receiver is gone (the Err is ignored by `let _ =`).
SendAck(waiters, id, b, by) ==
    IF Live(waiters, id)
    THEN [full |-> TRUE, ack |-> b, hops |-> <<>>, n |-> slot.n + 1, by |-> by]
    ELSE slot

SendHops(waiters, id, h, by) ==
    IF Live(waiters, id)
    THEN [full |-> TRUE, ack |-> FALSE, hops |-> h, n |-> slot.n + 1, by |-> by]
    ELSE slot

\* The entry under id in the `k` registry is the one the current call registered.
Own(k, id) == pc # "idle" /\ kind = k /\ id = request_id

\* One more removal of the current call's own entry, when remove() finds it.
CountRemoval(k, waiters, id, who) ==
    IF id \in DOMAIN waiters /\ Own(k, id) THEN Append(removed, who) ELSE removed

\* ---------------------------------------------------------------- text

HexDigits == <<"0", "1", "2", "3", "4", "5", "6", "7", "8", "9", "a", "b", "c", "d", "e", "f">>

\* format!("{:08x}", n) for a u32: eight lowercase hex digits, most significant first.
Hex8(n) == [i \in 1..8 |-> HexDigits[((n \div (16 ^ (8 - i))) % 16) + 1]]

\* ---------------------------------------------------------------- envelopes

\* The seven config categories DeviceState caches.
ConfigCategories == {"device", "position", "power", "network", "display", "lora", "bluetooth"}

\* A MeshPacket as process_mesh_packet reads it. payload: "none" | "encrypted" |
\* "decoded"; ok: the Data payload decodes as the message type of its port;
\* variant: the Routing variant; id, want_ack: the packet's own; request_id: Data's.
DecodedPacket(port, rid, pid, wa) ==
    [payload |-> "decoded", portnum |-> port, ok |-> TRUE, variant |-> "none",
     route |-> <<>>, request_id |-> rid, id |-> pid, want_ack |-> wa, from |-> 26,
     to |-> 27, text |-> <<>>, latlon |-> None, ptime |-> 0, metric |-> "none",
     config |-> "none", value |-> 0]

NoPacket == [DecodedPacket("other", 0, 0, FALSE) EXCEPT !.payload = "none"]

\* A NodeInfo / Channel payload of FromRadio, as process_from_radio_packet reads it.
NoNodeInfo == [num |-> 0, user |-> None, last_heard |-> 0, snr |-> 0]
NoChannel == [index |-> 0, settings |-> None, role |-> 0]

\* The FromRadio envelope the ingestion task holds.
NoEnvelope == [kind |-> "none", packet |-> NoPacket, node_info |-> NoNodeInfo,
               channel |-> NoChannel]
PacketEnvelope(p) == [NoEnvelope EXCEPT !.kind = "packet", !.packet = p]
NodeInfoEnvelope(n) == [NoEnvelope EXCEPT !.kind = "node_info", !.node_info = n]
ChannelEnvelope(c) == [NoEnvelope EXCEPT !.kind = "channel", !.channel = c]

\* What the rest of process_mesh_packet still reads of a packet once its port
\* handler has run: the port, the routing variant, request_id, id, and want_ack
\* (read only when id is not 0).
Rest(p) ==
    [DecodedPacket(p.portnum, p.request_id, p.id, p.id # 0 /\ p.want_ack) EXCEPT
        !.variant = p.variant]

\* What is still read of a packet after the routing arm: the variant no longer.
AfterRouting(p) == DecodedPacket(p.portnum, p.request_id, p.id, p.want_ack)

\* ---------------------------------------------------------------- DeviceState updates

add_message_front(ds, m) == [ds EXCEPT !.messages = <<m>> \o @]

\* DeviceState::add_message
add_message(ds, m) == [ds EXCEPT !.messages = Append(@, m)]

update_position_only(ds, n, pos) == [ds EXCEPT !.positions = MapInsert(EmptyMap, n, pos)]

\* DeviceState::update_position
update_position(ds, n, pos) == [ds EXCEPT !.positions = MapInsert(@, n, pos)]

\* DeviceState::update_telemetry
update_telemetry(ds, n, t) == [ds EXCEPT !.telemetry = MapInsert(@, n, t)]

update_node_merge(ds, n, info) ==
    [ds EXCEPT !.nodes = IF n \in DOMAIN @ THEN @ ELSE MapInsert(@, n, info)]

\* DeviceState::update_node
update_node(ds, n, info) == [ds EXCEPT !.nodes = MapInsert(@, n, info)]

\* The TextMessage built from a text packet.
TextMessageOf(p) ==
    [from |-> Hex8(p.from), from_node |-> p.from, to |-> Hex8(p.to), to_node |-> p.to,
     text |-> p.text, time |-> now, acknowledged |-> FALSE]

PositionOfPayloadTime(p) ==
    [node_id |-> Hex8(p.from), node_num |-> p.from,
     latitude |-> [num |-> p.latlon[1][1], den |-> 10000000],
     longitude |-> [num |-> p.latlon[1][2], den |-> 10000000],
     time |-> IF p.ptime > 0 THEN Some(p.ptime) ELSE None,
     last_updated |-> p.ptime]

\* The Position built from a decoded position packet: latitude_i / 1e7 and
\* longitude_i / 1e7 are kept as the fixed-point numerator over 10^7.
PositionOf(p) ==
    [node_id |-> Hex8(p.from), node_num |-> p.from,
     latitude |-> [num |-> p.latlon[1][1], den |-> 10000000],
     longitude |-> [num |-> p.latlon[1][2], den |-> 10000000],
     time |-> IF p.ptime > 0 THEN Some(p.ptime) ELSE None,
     last_updated |-> now]

TelemetryOfMerged(p) ==
    LET old == IF p.from \in DOMAIN device_state.telemetry
               THEN device_state.telemetry[p.from]
               ELSE [device_metrics |-> None, environment_metrics |-> None,
                     air_quality_metrics |-> None]
    IN [node_num |-> p.from, time |-> p.ptime,
        device_metrics |-> IF p.metric = "device" THEN Some(p.value) ELSE old.device_metrics,
        environment_metrics |->
            IF p.metric = "environment" THEN Some(p.value) ELSE old.environment_metrics,
        air_quality_metrics |->
            IF p.metric = "air_quality" THEN Some(p.value) ELSE old.air_quality_metrics]

\* The TelemetryData built from a decoded telemetry packet: only the metric set of
\* the packet's variant is Some.
TelemetryOf(p) ==
    [node_num |-> p.from, time |-> p.ptime,
     device_metrics |-> IF p.metric = "device" THEN Some(p.value) ELSE None,
     environment_metrics |-> IF p.metric = "environment" THEN Some(p.value) ELSE None,
     air_quality_metrics |-> IF p.metric = "air_quality" THEN Some(p.value) ELSE None]

process_config_response_reset(ds, p) ==
    IF p.config \in ConfigCategories
    THEN [ds EXCEPT !.configs = [c \in DOMAIN @ |-> IF c = p.config THEN Some(p.value) ELSE None]]
    ELSE ds

\* process_config_response: the cached config of the response's category is replaced.
process_config_response(ds, p) ==
    IF p.config \in ConfigCategories
    THEN [ds EXCEPT !.configs = MapInsert(@, p.config, Some(p.value))]
    ELSE ds

HandlePortNamedVariant(ds, p) ==
    CASE p.portnum = "text" -> add_message(ds, TextMessageOf(p))
      [] p.portnum = "position" /\ p.ok /\ Len(p.latlon) > 0 ->
            update_position(ds, p.from, PositionOf(p))
      [] p.portnum = "telemetry" /\ p.ok
           /\ p.metric \in {"device", "environment", "air_quality"} ->
            update_telemetry(ds, p.from, TelemetryOf(p))
      [] p.portnum = "admin" /\ p.ok -> process_config_response(ds, p)
      [] OTHER -> ds

HandlePortUndecoded(ds, p) ==
    CASE p.portnum = "text" -> add_message(ds, TextMessageOf(p))
      [] p.portnum = "position" /\ Len(p.latlon) > 0 ->
            update_position(ds, p.from, PositionOf(p))
      [] p.portnum = "telemetry" -> update_telemetry(ds, p.from, TelemetryOf(p))
      [] p.portnum = "admin" -> process_config_response(ds, p)
      [] OTHER -> ds

\* The port handler of process_mesh_packet, as far as it writes DeviceState.
HandlePort(ds, p) ==
    CASE p.portnum = "text" -> add_message(ds, TextMessageOf(p))
      [] p.portnum = "position" /\ p.ok /\ Len(p.latlon) > 0 ->
            update_position(ds, p.from, PositionOf(p))
      [] p.portnum = "telemetry" /\ p.ok -> update_telemetry(ds, p.from, TelemetryOf(p))
      [] p.portnum = "admin" /\ p.ok -> process_config_response(ds, p)
      [] OTHER -> ds

\* ---------------------------------------------------------------- route replies

HopNamePlaceholder(ds, n) == <<"Unknown (">> \o Hex8(n) \o <<")">>

\* The display name of a hop: the node's long name, or "Unknown (<8 hex>)".
HopName(ds, n) ==
    IF n \in DOMAIN ds.nodes
    THEN ds.nodes[n].user.long_name
    ELSE <<"Unknown (">> \o Hex8(n) \o <<")">>

\* The RouteHops of a route reply: hop_number is the 0-based index.
HopsOf(ds, route) ==
    [i \in 1..Len(route) |->
        [node_id |-> route[i], node_name |-> HopName(ds, route[i]), hop_number |-> i - 1,
         snr |-> None, rssi |-> None]]

\* The hop list a Routing payload resolves a route waiter with.
RouteResult(ds, p) == IF p.variant = "route_reply" THEN HopsOf(ds, p.route) ELSE <<>>

RouteLookupAppliesReplyOnly(p) ==
    /\ p.portnum = "routing"
    /\ p.ok
    /\ p.variant = "route_reply"
    /\ p.request_id # 0

\* The routing arm looks into route_waiters: the payload decodes, its variant is
\* RouteReply or ErrorReason, and request_id is not 0.
RouteLookupApplies(p) ==
    /\ p.portnum = "routing"
    /\ p.ok
    /\ p.variant \in {"route_reply", "error_reason"}
    /\ p.request_id # 0

RoutingAckAppliesNoError(p) == p.request_id # 0 /\ p.variant # "error_reason"

RoutingAckAppliesAnyId(p) == p.payload = "decoded"

\* The routing arm looks into ack_waiters: request_id is not 0 (any variant, decoded or not).
RoutingAckApplies(p) == p.request_id # 0

ImplicitAckAppliesWantAck(p) == p.id # 0 /\ p.want_ack /\ p.request_id # 0

\* The check after the port handlers looks into ack_waiters: not (id # 0 and
\* want_ack), id # 0, and request_id # 0.
ImplicitAckApplies(p) ==
    /\ ~(p.id # 0 /\ p.want_ack)
    /\ p.id # 0
    /\ p.request_id # 0

AckKeyOwnId(p) == p.id

\* The key both ack checks look up: Data.request_id.
AckKey(p) == p.request_id

\* ---------------------------------------------------------------- ingestion: mesh packets

\* What names a packet as the sender of a value: its routing variant, or its port.
Origin(p) == IF p.portnum = "routing" THEN p.variant ELSE p.portnum

\* The current call is in progress and the packet carries its id.
CarriesIssuedId(p) == pc # "idle" /\ p.payload = "decoded" /\ p.request_id = request_id

\* process_mesh_packet up to the end of its port handler. An absent or encrypted
\* payload returns at once. The routing arm resolves a route waiter under the
\* route_waiters lock; the other arms write DeviceState under its lock.
IngestPacket(p) ==
    /\ packet_processor
    /\ ipc = "recv"
    /\ ~state_locked
    /\ IF p.payload # "decoded"
       THEN UNCHANGED <<ipc, cur, device_state, committed, route_waiters, slot, removed, hit>>
       ELSE /\ ipc' = IF p.portnum = "routing" THEN "ack_check" ELSE "implicit"
            /\ cur' = PacketEnvelope(Rest(p))
            /\ device_state' = HandlePort(device_state, p)
            /\ committed' = device_state'
            /\ IF RouteLookupApplies(p) /\ p.request_id \in DOMAIN route_waiters
               THEN /\ route_waiters' = RemoveWaiter(route_waiters, p.request_id)
                    /\ slot' = SendHops(route_waiters, p.request_id,
                                        RouteResult(device_state, p), Origin(p))
                    /\ removed' = CountRemoval("route", route_waiters, p.request_id, "ingest")
               ELSE UNCHANGED <<route_waiters, slot, removed>>
            /\ hit' = (hit \/ CarriesIssuedId(p))
    /\ UNCHANGED <<api, packet_processor, ack_waiters, pc, kind, request_id, rx, outcome,
                   sent, pre, state_locked, last_node, last_channel, readerVars, opVars, now>>

\* The routing arm's ack check (after the route lookup, under the ack_waiters lock).
IngestAckCheck ==
    /\ packet_processor
    /\ ipc = "ack_check"
    /\ LET p == cur.packet
           found == RoutingAckApplies(p) /\ AckKey(p) \in DOMAIN ack_waiters
       IN /\ ack_waiters' = IF found THEN RemoveWaiter(ack_waiters, AckKey(p)) ELSE ack_waiters
          /\ slot' = IF found THEN SendAck(ack_waiters, AckKey(p), TRUE, Origin(p)) ELSE slot
          /\ removed' = IF found THEN CountRemoval("ack", ack_waiters, AckKey(p), "ingest")
                         ELSE removed
          /\ hit' = (hit \/ CarriesIssuedId(p))
    /\ ipc' = "implicit"
    /\ cur' = PacketEnvelope(AfterRouting(cur.packet))
    /\ UNCHANGED <<api, packet_processor, route_waiters, pc, kind, request_id, rx, outcome,
                   sent, pre, storeVars, readerVars, opVars, now>>

\* The implicit-ack check that ends process_mesh_packet for every decoded packet.
IngestImplicit ==
    /\ packet_processor
    /\ ipc = "implicit"
    /\ LET p == cur.packet
           found == ImplicitAckApplies(p) /\ AckKey(p) \in DOMAIN ack_waiters
       IN /\ ack_waiters' = IF found THEN RemoveWaiter(ack_waiters, AckKey(p)) ELSE ack_waiters
          /\ slot' = IF found THEN SendAck(ack_waiters, AckKey(p), TRUE, Origin(p)) ELSE slot
          /\ removed' = IF found THEN CountRemoval("ack", ack_waiters, AckKey(p), "ingest")
                         ELSE removed
          /\ hit' = (hit \/ CarriesIssuedId(p))
    /\ ipc' = "recv"
    /\ cur' = NoEnvelope
    /\ UNCHANGED <<api, packet_processor, route_waiters, pc, kind, request_id, rx, outcome,
                   sent, pre, storeVars, readerVars, opVars, now>>

\* ---------------------------------------------------------------- ingestion: node identity

\* format!("{:?}", user.hw_model()): the name of the hardware model, Unset for a
\* number the enum does not know.
HwModelName(i) == CASE i = 4 -> <<"Tbeam">> [] i = 9 -> <<"Rak4631">> [] OTHER -> <<"Unset">>

\* node_info.user.clone().unwrap_or_default()
UserOrDefault(u) ==
    IF Len(u) > 0 THEN u[1]
    ELSE [id |-> <<>>, long_name |-> <<>>, short_name |-> <<>>, hw_model |-> 0]

NodeInfoOfNoSignal(n) ==
    [id |-> Hex8(n.num), num |-> n.num,
     user |-> [id |-> UserOrDefault(n.user).id,
               long_name |-> UserOrDefault(n.user).long_name,
               short_name |-> UserOrDefault(n.user).short_name,
               hw_model |-> Some(HwModelName(UserOrDefault(n.user).hw_model))],
     last_heard |-> Some(n.last_heard), snr |-> None, rssi |-> None]

\* The NodeInfo record built from a NodeInfo payload.
NodeInfoOf(n) ==
    [id |-> Hex8(n.num), num |-> n.num,
     user |-> [id |-> UserOrDefault(n.user).id,
               long_name |-> UserOrDefault(n.user).long_name,
               short_name |-> UserOrDefault(n.user).short_name,
               hw_model |-> Some(HwModelName(UserOrDefault(n.user).hw_model))],
     last_heard |-> Some(n.last_heard), snr |-> Some(n.snr), rssi |-> Some(0)]

\* A NodeInfo record half overwritten in place by another: the identity and user
\* part already new, the observation part still old.
HalfWrittenNode(old, new) ==
    [new EXCEPT !.last_heard = old.last_heard, !.snr = old.snr, !.rssi = old.rssi]

\* The NodeInfo arm takes the DeviceState lock and starts to overwrite the record.
IngestNodeInfoBegin(n) ==
    /\ packet_processor
    /\ ipc = "recv"
    /\ ~state_locked
    /\ state_locked' = TRUE
    /\ ipc' = "node_write"
    /\ cur' = NodeInfoEnvelope(n)
    /\ device_state' =
          IF n.num \in DOMAIN device_state.nodes
          THEN [device_state EXCEPT !.nodes[n.num] = HalfWrittenNode(@, NodeInfoOf(n))]
          ELSE device_state
    /\ UNCHANGED <<api, packet_processor, corrVars, committed, last_node, last_channel,
                   readerVars, opVars, now>>

\* state.update_node(num, NodeInfo {..}) is complete; the lock guard is dropped.
IngestNodeInfoEnd ==
    /\ packet_processor
    /\ ipc = "node_write"
    /\ device_state' = update_node(device_state, cur.node_info.num, NodeInfoOf(cur.node_info))
    /\ state_locked' = FALSE
    /\ committed' = device_state'
    /\ last_node' = MapInsert(last_node, cur.node_info.num, cur.node_info)
    /\ ipc' = "recv"
    /\ cur' = NoEnvelope
    /\ UNCHANGED <<api, packet_processor, corrVars, last_channel, readerVars, opVars, now>>

\* ---------------------------------------------------------------- ingestion: channels

RECURSIVE Dec(_)
\* format!("{}", n) for n >= 0: the decimal digits.
Dec(n) == IF n < 10 THEN <<HexDigits[n + 1]>> ELSE Dec(n \div 10) \o <<HexDigits[(n % 10) + 1]>>

\* format!("{:?}", channel.role()): Disabled for a number the enum does not know.
RoleName(r) == CASE r = 1 -> <<"Primary">> [] r = 2 -> <<"Secondary">> [] OTHER -> <<"Disabled">>

\* The ChannelInfo record built from a Channel payload.
ChannelInfoOf(c) ==
    [index |-> c.index,
     name |-> IF Len(c.settings) > 0 THEN c.settings[1].name
              ELSE <<"Channel ">> \o Dec(c.index),
     role |-> RoleName(c.role),
     has_psk |-> IF Len(c.settings) > 0 THEN Len(c.settings[1].psk) > 0 ELSE FALSE,
     settings |-> c.settings]

\* The positions of the records of channels whose index is i.
Matches(channels, i) == {k \in 1..Len(channels) : channels[k].index = i}

update_channel_push(ds, ch) == [ds EXCEPT !.channels = Append(@, ch)]

\* DeviceState::update_channel: the first record with the index is overwritten, or
\* the record is pushed.
update_channel(ds, ch) ==
    IF Matches(ds.channels, ch.index) # {}
    THEN LET k == CHOOSE k \in Matches(ds.channels, ch.index) :
                      \A j \in Matches(ds.channels, ch.index) : k <= j
         IN [ds EXCEPT !.channels[k] = ch]
    ELSE [ds EXCEPT !.channels = Append(@, ch)]

\* A ChannelInfo half overwritten in place by another.
HalfWrittenChannel(old, new) == [new EXCEPT !.has_psk = old.has_psk, !.settings = old.settings]

\* The Channel arm takes the DeviceState lock and starts to overwrite the record.
IngestChannelBegin(c) ==
    /\ packet_processor
    /\ ipc = "recv"
    /\ ~state_locked
    /\ state_locked' = TRUE
    /\ ipc' = "channel_write"
    /\ cur' = ChannelEnvelope(c)
    /\ device_state' =
          IF Matches(device_state.channels, c.index) # {}
          THEN LET k == CHOOSE k \in Matches(device_state.channels, c.index) : TRUE
               IN [device_state EXCEPT !.channels[k] = HalfWrittenChannel(@, ChannelInfoOf(c))]
          ELSE device_state
    /\ UNCHANGED <<api, packet_processor, corrVars, committed, last_node, last_channel,
                   readerVars, opVars, now>>

\* state.update_channel(ChannelInfo {..}) is complete; the lock guard is dropped.
IngestChannelEnd ==
    /\ packet_processor
    /\ ipc = "channel_write"
    /\ device_state' = update_channel(device_state, ChannelInfoOf(cur.channel))
    /\ state_locked' = FALSE
    /\ committed' = device_state'
    /\ last_channel' = [before |-> committed.channels, channel |-> Some(cur.channel)]
    /\ ipc' = "recv"
    /\ cur' = NoEnvelope
    /\ UNCHANGED <<api, packet_processor, corrVars, last_node, readerVars, opVars, now>>

\* ---------------------------------------------------------------- ingestion: the rest

\* hex::encode(bytes): two lowercase hex digits a byte.
RECURSIVE HexEncode(_)
HexEncode(bytes) ==
    IF Len(bytes) = 0 THEN <<>>
    ELSE <<HexDigits[(bytes[1] \div 16) + 1], HexDigits[(bytes[1] % 16) + 1]>>
         \o HexEncode(Tail(bytes))

\* DeviceState::set_my_node_info
set_my_node_info(ds, info) == [ds EXCEPT !.my_node_info = Some(info)]

\* The MyInfo arm.
IngestMyInfo(m) ==
    /\ packet_processor
    /\ ipc = "recv"
    /\ ~state_locked
    /\ device_state' = set_my_node_info(device_state,
          [node_num |-> m.my_node_num, node_id |-> Hex8(m.my_node_num),
           reboot_count |-> m.reboot_count, min_app_version |-> m.min_app_version,
           device_id |-> HexEncode(m.device_id)])
    /\ committed' = device_state'
    /\ UNCHANGED <<api, packet_processor, corrVars, state_locked, last_node, last_channel,
                   readerVars, opVars, now, ipc, cur>>

IngestIgnoredFatal ==
    /\ packet_processor
    /\ ipc = "recv"
    /\ packet_processor' = FALSE
    /\ UNCHANGED <<api, corrVars, storeVars, readerVars, opVars, now, ipc, cur>>

\* An envelope without payload variant, or of a variant with no arm: nothing is done.
IngestIgnored ==
    /\ packet_processor
    /\ ipc = "recv"
    /\ UNCHANGED vars

\* ---------------------------------------------------------------- caller: exclusivity

\* The state of a polling call (request_position, collect_telemetry,
\* collect_positions). pc: where it is; start_time: Instant::now() at the start of
\* the loop; requests: the outbound requests it has sent; result: what it returned
\* (via the cache, the polling loop or the deadline); began: the wall clock when it
\* was called; initial_time, last_check_time, collected_positions: the locals of
\* the collect_* loops; initial_count: positions.len() of collect_positions' first
\* snapshot.
NoPoll ==
    [pc |-> "idle", op |-> "none", node_num |-> 0, timeout_secs |-> 0, start_time |-> 0,
     requests |-> 0, result |-> None, via |-> "none", began |-> 0, initial_time |-> None,
     last_check_time |-> 0, collected_positions |-> EmptyMap, initial_count |-> 0]

\* The session operation that returned last (or, with result "pending", is in
\* progress): its name, its key argument, its result, and the value it returned.
NoCall == [op |-> "new", key |-> <<>>, result |-> "ok", value |-> None]
Called(op, r) == [NoCall EXCEPT !.op = op, !.result = r]

\* The caller is free to start an operation: calls take &mut ConnectionManager.
CallerIdle == pc = "idle" /\ poll.pc \in {"idle", "done"} /\ last_call.result # "pending"

\* ---------------------------------------------------------------- caller: get_device_state

GetDeviceStateUnlocked ==
    /\ pc = "idle"
    /\ snap' = device_state
    /\ snap_base' = committed
    /\ UNCHANGED <<api, packet_processor, corrVars, storeVars, opVars, now, ipc, cur>>

\* self.device_state.lock().await.clone()
GetDeviceState ==
    /\ pc = "idle"
    /\ ~state_locked
    /\ snap' = device_state
    /\ snap_base' = committed
    /\ UNCHANGED <<api, packet_processor, corrVars, storeVars, opVars, now, ipc, cur>>

\* ---------------------------------------------------------------- caller: get_position

\* get_position(connection, node_num): the snapshot's position of the node, or of
\* the local node when node_num is None (None without local identity).
GetPosition(node_num) ==
    /\ CallerIdle
    /\ ~state_locked
    /\ LET ds == device_state
           num == IF node_num # None THEN node_num
                  ELSE IF ds.my_node_info # None THEN Some(ds.my_node_info[1].node_num)
                  ELSE None
       IN last_call' = [op |-> "get_position", key |-> node_num, result |-> "ok",
                        value |-> IF num # None /\ num[1] \in DOMAIN ds.positions
                                  THEN Some(ds.positions[num[1]]) ELSE None]
    /\ UNCHANGED <<api, packet_processor, corrVars, storeVars, readerVars, poll,
                   packet_receiver, takes, now, ipc, cur>>

\* ---------------------------------------------------------------- caller: get_network_stats

\* An average SNR is a whole number of steps, SnrSteps of them to the dB.
SnrSteps == 4
MaxNeighbors == 3
MaxSnrDb == 6
Averages == {None} \cup {Some(v) : v \in (0 - SnrSteps)..(MaxSnrDb * SnrSteps)}

mesh_health_inclusive(neighbors, average_snr) ==
    IF neighbors = 0 THEN "Isolated"
    ELSE IF neighbors = 1 THEN "Weak"
    ELSE IF average_snr # None /\ average_snr[1] >= 5 * SnrSteps THEN "Excellent"
    ELSE IF average_snr # None /\ average_snr[1] >= 0 THEN "Good"
    ELSE "Fair"

\* The mesh health get_network_stats derives from the neighbor count and the
\* average SNR: the if/else-if chain, map(..).unwrap_or(false) on the Option.
mesh_health(neighbors, average_snr) ==
    IF neighbors = 0 THEN "Isolated"
    ELSE IF neighbors = 1 THEN "Weak"
    ELSE IF (IF average_snr # None THEN average_snr[1] > 5 * SnrSteps ELSE FALSE)
    THEN "Excellent"
    ELSE IF (IF average_snr # None THEN average_snr[1] > 0 ELSE FALSE)
    THEN "Good"
    ELSE "Fair"

\* The classification applied to one pair of metrics.
MeshHealthOf(neighbors, average_snr) ==
    /\ last_call' = [op |-> "mesh_health", key |-> <<neighbors, average_snr>>,
                     result |-> "ok", value |-> Some(mesh_health(neighbors, average_snr))]
    /\ UNCHANGED <<api, packet_processor, corrVars, storeVars, readerVars, poll,
                   packet_receiver, takes, now, ipc, cur>>

\* The nodes get_network_stats counts as direct neighbors and get_topology draws
\* an edge to: those with an SNR or an RSSI.
Neighbors(ds) == {n \in DOMAIN ds.nodes : ds.nodes[n].snr # None \/ ds.nodes[n].rssi # None}

\* The sum of f(n) over a finite set of nodes.
RECURSIVE SumOver(_, _, _)
SumOver(ds, S, field) ==
    IF S = {} THEN 0
    ELSE LET n == CHOOSE n \in S : TRUE
         IN ds.nodes[n][field][1] + SumOver(ds, S \ {n}, field)

\* The average of the Some values of a field over the nodes, None without any: the
\* sum over the count (the SNR in steps; the quotient is exact when the values are
\* equal, as those of the runs are).
AverageOf(ds, field) ==
    LET S == {n \in DOMAIN ds.nodes : ds.nodes[n][field] # None}
    IN IF S = {} THEN None ELSE Some(SumOver(ds, S, field) \div Cardinality(S))

\* get_network_stats: the counts, averages and mesh health of a snapshot.
GetNetworkStats ==
    /\ CallerIdle
    /\ ~state_locked
    /\ LET ds == device_state
           neighbors == Cardinality(Neighbors(ds))
           average_snr == AverageOf(ds, "snr")
       IN last_call' =
            [op |-> "get_network_stats", key |-> <<>>, result |-> "ok",
             value |-> Some([total_nodes |-> Cardinality(DOMAIN ds.nodes),
                             active_nodes |->
                                 Cardinality({n \in DOMAIN ds.nodes :
                                     IF ds.nodes[n].last_heard # None
                                     THEN (IF now >= ds.nodes[n].last_heard[1]
                                           THEN now - ds.nodes[n].last_heard[1] ELSE 0) < 3600
                                     ELSE FALSE}),
                             neighbors |-> neighbors,
                             average_snr |-> average_snr,
                             average_rssi |-> AverageOf(ds, "rssi"),
                             mesh_health |-> mesh_health(neighbors, average_snr)])]
    /\ UNCHANGED <<api, packet_processor, corrVars, storeVars, readerVars, poll,
                   packet_receiver, takes, now, ipc, cur>>

\* get_topology: a node for every known node, an edge from the local node (or
\* "unknown") to every node with an SNR or an RSSI.
GetTopology ==
    /\ CallerIdle
    /\ ~state_locked
    /\ LET ds == device_state
           my_node_id == IF ds.my_node_info # None THEN ds.my_node_info[1].node_id
                         ELSE <<"unknown">>
       IN last_call' =
            [op |-> "get_topology", key |-> <<>>, result |-> "ok",
             value |-> Some([nodes |-> {[id |-> ds.nodes[n].id, num |-> n,
                                         name |-> ds.nodes[n].user.long_name,
                                         snr |-> ds.nodes[n].snr, rssi |-> ds.nodes[n].rssi,
                                         last_heard |-> ds.nodes[n].last_heard,
                                         hops_away |-> None] : n \in DOMAIN ds.nodes},
                             edges |-> {[from |-> my_node_id, to |-> ds.nodes[n].id,
                                         snr |-> ds.nodes[n].snr, rssi |-> ds.nodes[n].rssi] :
                                          n \in Neighbors(ds)},
                             total_nodes |-> Cardinality(DOMAIN ds.nodes),
                             my_node |-> ds.my_node_info])]
    /\ UNCHANGED <<api, packet_processor, corrVars, storeVars, readerVars, poll,
                   packet_receiver, takes, now, ipc, cur>>

\* ---------------------------------------------------------------- caller: session

ConnectNoTask ==
    /\ CallerIdle
    /\ ~api
    /\ api' = TRUE
    /\ last_call' = Called("connect", "ok")
    /\ takes' = 0
    /\ UNCHANGED <<packet_processor, corrVars, storeVars, readerVars, poll, packet_receiver,
                   now, ipc, cur>>

\* connect() on a manager that is not connected: the stream is built, the
\* handshake and configure succeed; the api is stored, the ingestion task spawned
\* (start_packet_processing is given the receiver; self.packet_receiver is not
\* assigned), and Ok(()) returned.
Connect ==
    /\ CallerIdle
    /\ ~api
    /\ api' = TRUE
    /\ packet_processor' = TRUE
    /\ last_call' = Called("connect", "ok")
    /\ takes' = 0
    /\ UNCHANGED <<corrVars, storeVars, readerVars, poll, packet_receiver, now, ipc, cur>>

\* connect() fails: building the stream or configure(..) returns an error, which
\* `?` returns before the api is stored or the task spawned.
ConnectFail ==
    /\ CallerIdle
    /\ ~api
    /\ last_call' = Called("connect", "connect_err")
    /\ UNCHANGED <<api, packet_processor, corrVars, storeVars, readerVars, poll,
                   packet_receiver, takes, now, ipc, cur>>

DisconnectClearing ==
    /\ CallerIdle
    /\ ~state_locked
    /\ api' = FALSE
    /\ packet_processor' = FALSE
    /\ ipc' = "recv"
    /\ cur' = NoEnvelope
    /\ last_call' = Called("disconnect", "ok")
    /\ ack_waiters' = EmptyMap
    /\ route_waiters' = EmptyMap
    /\ UNCHANGED <<pc, kind, request_id, rx, slot, outcome, sent, removed, pre, hit,
                   storeVars, readerVars, poll, packet_receiver, takes, now>>

DisconnectForgetting ==
    /\ CallerIdle
    /\ ~state_locked
    /\ api' = FALSE
    /\ packet_processor' = FALSE
    /\ ipc' = "recv"
    /\ cur' = NoEnvelope
    /\ last_call' = Called("disconnect", "ok")
    /\ device_state' = NewDeviceState
    /\ committed' = NewDeviceState
    /\ UNCHANGED <<corrVars, state_locked, last_node, last_channel, readerVars, poll,
                   packet_receiver, takes, now>>

\* disconnect(): the ingestion task is aborted (at its next await, so never while it
\* holds the DeviceState lock) and the api taken.
Disconnect ==
    /\ CallerIdle
    /\ ~state_locked
    /\ api' = FALSE
    /\ packet_processor' = FALSE
    /\ ipc' = "recv"
    /\ cur' = NoEnvelope
    /\ last_call' = Called("disconnect", "ok")
    /\ UNCHANGED <<corrVars, storeVars, readerVars, poll, packet_receiver, takes, now>>

\* disconnect() on a connected manager whose api.disconnect().await? fails: the
\* task is aborted and the api taken before the error is returned.
DisconnectErr ==
    /\ CallerIdle
    /\ ~state_locked
    /\ api
    /\ api' = FALSE
    /\ packet_processor' = FALSE
    /\ ipc' = "recv"
    /\ cur' = NoEnvelope
    /\ last_call' = Called("disconnect", "disconnect_err")
    /\ UNCHANGED <<corrVars, storeVars, readerVars, poll, packet_receiver, takes, now>>

\* receiver.recv() returns None: the inbound stream has ended and the ingestion
\* loop leaves its `while let`; the task finishes with the api still in place.
StreamEnd ==
    /\ packet_processor
    /\ ipc = "recv"
    /\ packet_processor' = FALSE
    /\ UNCHANGED <<api, corrVars, storeVars, readerVars, opVars, now, ipc, cur>>

\* take_packet_receiver(): self.packet_receiver.take(), an error if it is None.
TakePacketReceiver ==
    /\ CallerIdle
    /\ takes < MaxTakes
    /\ takes' = takes + 1
    /\ packet_receiver' = FALSE
    /\ last_call' = Called("take_packet_receiver", IF packet_receiver THEN "ok" ELSE "taken_err")
    /\ UNCHANGED <<api, packet_processor, corrVars, storeVars, readerVars, poll, now, ipc, cur>>

\* The operations whose first fallible step is connection.get_api()?.
SessionOps ==
    {"send_text_message", "set_position", "add_channel", "delete_channel", "set_channel",
     "reboot_device", "factory_reset_device", "shutdown_device"}

\* The operations that call connection.ensure_session_key().await? first.
AdminKeyOps == {"set_config_value"}

\* ensure_session_key(): an operation needing an active session; without one it
\* returns the not-connected error, with one it succeeds or fails to send.
EnsureSessionKey == IF api THEN {"ok", "err"} ELSE {"not_connected"}

\* get_api(): the api, or the error "Not connected".
GetApi == IF api THEN "ok" ELSE "not_connected"

SessionOpUnchecked(op) ==
    /\ CallerIdle
    /\ \E r \in {"ok", "err"} : last_call' = Called(op, r)
    /\ UNCHANGED <<api, packet_processor, corrVars, storeVars, readerVars, poll,
                   packet_receiver, takes, now, ipc, cur>>

\* A session operation: after ensure_session_key (the admin ones) get_api()? returns
\* "Not connected" without a session; with one the operation goes on to return Ok
\* or a later error (a rejected argument, a failed send).
SessionOp(op) ==
    /\ CallerIdle
    /\ \E k \in IF op \in AdminKeyOps THEN EnsureSessionKey ELSE {"ok"} :
          IF k # "ok" THEN last_call' = Called(op, k)
          ELSE IF GetApi # "ok" THEN last_call' = Called(op, GetApi)
          ELSE \E r \in {"ok", "err"} : last_call' = Called(op, r)
    /\ UNCHANGED <<api, packet_processor, corrVars, storeVars, readerVars, poll,
                   packet_receiver, takes, now, ipc, cur>>

\* ---------------------------------------------------------------- caller: get_config_value

\* The fields get_config_value knows of a cached config, by category; the other
\* four categories have no arm.
KnownFields ==
    [device |-> {"role", "button_gpio", "buzzer_gpio", "rebroadcast_mode",
                 "node_info_broadcast_secs", "tzdef", "disable_triple_click"},
     position |-> {"position_broadcast_secs", "position_broadcast_smart_enabled",
                   "fixed_position", "gps_enabled", "gps_mode"},
     lora |-> {"use_preset", "modem_preset", "bandwidth", "spread_factor", "coding_rate",
               "frequency_offset", "region", "hop_limit", "tx_enabled", "tx_power",
               "channel_num", "ignore_mqtt"}]

GetConfigCall(key, r, v) ==
    [op |-> "get_config_value", key |-> key, result |-> r, value |-> v]

\* The second match of get_config_value: for device, position and lora with a
\* cached config the field's value, or an error for a field without arm; null
\* for these three without cached config and for the other categories.
config_value(ds, category, field) ==
    IF category \in DOMAIN KnownFields /\ ds.configs[category] # None
    THEN IF field \in KnownFields[category]
         THEN [result |-> "ok",
               value |-> Some([field |-> field, of |-> ds.configs[category][1]])]
         ELSE [result |-> "unknown_field", value |-> None]
    ELSE [result |-> "ok", value |-> None]

\* get_config_value up to its sleep: ensure_session_key, the key split at '.',
\* get_api, the category match, the request sent.
GetConfigBegin(key) ==
    /\ CallerIdle
    /\ \E k \in EnsureSessionKey :
          IF k # "ok" THEN last_call' = GetConfigCall(key, k, None)
          ELSE IF Len(key) # 2 THEN last_call' = GetConfigCall(key, "invalid_key", None)
          ELSE IF GetApi # "ok" THEN last_call' = GetConfigCall(key, GetApi, None)
          ELSE IF key[1] \notin ConfigCategories
               THEN last_call' = GetConfigCall(key, "unknown_category", None)
          ELSE \E r \in {"pending", "err"} : last_call' = GetConfigCall(key, r, None)
    /\ UNCHANGED <<api, packet_processor, corrVars, storeVars, readerVars, poll,
                   packet_receiver, takes, now, ipc, cur>>

\* get_config_value after its sleep: the snapshot is read.
GetConfigEnd ==
    /\ last_call.op = "get_config_value"
    /\ last_call.result = "pending"
    /\ ~state_locked
    /\ LET v == config_value(device_state, last_call.key[1], last_call.key[2])
       IN last_call' = GetConfigCall(last_call.key, v.result, v.value)
    /\ UNCHANGED <<api, packet_processor, corrVars, storeVars, readerVars, poll,
                   packet_receiver, takes, now, ipc, cur>>

\* ---------------------------------------------------------------- caller: set_config_value, list_config

\* parse_region / parse_role: the names they accept (of upper-case input).
RegionNames ==
    {"US", "US915", "EU", "EU433", "EU868", "EU_868", "CN", "JP", "ANZ", "KR", "TW", "RU",
     "IN", "NZ865", "NZ_865", "TH", "UA433", "UA_433", "UA868", "UA_868", "MY_433",
     "MY_919", "SG_923", "LORA_24"}
RoleNames ==
    {"CLIENT", "CLIENT_MUTE", "ROUTER", "ROUTER_CLIENT", "REPEATER", "TRACKER", "SENSOR",
     "TAK", "CLIENT_HIDDEN", "LOST_AND_FOUND", "TAK_TRACKER"}

\* What set_config_value returns before it sends, or "send": the key is split at
\* '.', the category and field matched, the value parsed.
SetConfigMessage(key, value) ==
    IF Len(key) # 2 THEN "invalid_key"
    ELSE IF key[1] = "lora"
         THEN IF key[2] # "region" THEN "unknown_field"
              ELSE IF value \in RegionNames THEN "send" ELSE "invalid_value"
    ELSE IF key[1] = "device"
         THEN IF key[2] # "role" THEN "unknown_field"
              ELSE IF value \in RoleNames THEN "send" ELSE "invalid_value"
    ELSE "unknown_category"

SetConfigValueCaching(key, value) ==
    /\ CallerIdle
    /\ ~state_locked
    /\ last_call' = [op |-> "set_config_value", key |-> key, result |-> "ok", value |-> None]
    /\ device_state' = [device_state EXCEPT !.configs[key[1]] = None]
    /\ UNCHANGED <<api, packet_processor, corrVars, state_locked, committed, last_node,
                   last_channel, readerVars, poll, packet_receiver, takes, now, ipc, cur>>

\* set_config_value(connection, key, value): ensure_session_key, get_api, the admin
\* message built from the key and the value, one send, Ok(()).
SetConfigValue(key, value) ==
    /\ CallerIdle
    /\ \E k \in EnsureSessionKey :
          \E r \in IF k # "ok" THEN {k}
                    ELSE IF GetApi # "ok" THEN {GetApi}
                    ELSE IF SetConfigMessage(key, value) # "send"
                         THEN {SetConfigMessage(key, value)}
                    ELSE {"ok", "err"} :
             last_call' = [op |-> "set_config_value", key |-> key, result |-> r,
                           value |-> None]
    /\ UNCHANGED <<api, packet_processor, corrVars, storeVars, readerVars, poll,
                   packet_receiver, takes, now, ipc, cur>>

\* list_config(connection): the cached configs of a snapshot.
ListConfig ==
    /\ CallerIdle
    /\ ~state_locked
    /\ last_call' = [op |-> "list_config", key |-> <<>>, result |-> "ok",
                     value |-> Some(device_state.configs)]
    /\ UNCHANGED <<api, packet_processor, corrVars, storeVars, readerVars, poll,
                   packet_receiver, takes, now, ipc, cur>>

\* ---------------------------------------------------------------- caller: send_text_with_ack

\* A fresh call: its oneshot channel is empty and nothing is known of its entry.
FreshCall(k, id) ==
    /\ pre' = IF k = "ack" THEN DOMAIN ack_waiters ELSE DOMAIN route_waiters
    /\ hit' = FALSE
    /\ kind' = k
    /\ request_id' = id
    /\ rx' = TRUE
    /\ slot' = EmptySlot
    /\ outcome' = NoOutcome
    /\ sent' = FALSE
    /\ removed' = <<>>

\* The call returns r: its receiver is dropped with the future.
Return(r) ==
    /\ outcome' = r
    /\ rx' = FALSE
    /\ pc' = "idle"
    /\ ack_waiters' = IF kind = "ack" THEN DropReceiver(ack_waiters, request_id) ELSE ack_waiters
    /\ route_waiters' =
          IF kind = "route" THEN DropReceiver(route_waiters, request_id) ELSE route_waiters

AckRegisterNoInsert(id) ==
    /\ CallerIdle
    /\ FreshCall("ack", id)
    /\ pc' = "ack_registered"
    /\ UNCHANGED <<api, packet_processor, ack_waiters, route_waiters, storeVars, readerVars,
                   opVars, now, ipc, cur>>

\* packet_id = rand::random(); waiters.insert(packet_id, tx)
AckRegister(id) ==
    /\ CallerIdle
    /\ FreshCall("ack", id)
    /\ ack_waiters' = InsertWaiter(ack_waiters, id, TRUE)
    /\ pc' = "ack_registered"
    /\ UNCHANGED <<api, packet_processor, route_waiters, storeVars, readerVars, opVars, now, ipc, cur>>

\* self.get_api()? fails: "Not connected".
AckNotConnected ==
    /\ pc = "ack_registered"
    /\ ~api
    /\ Return(NotConnectedOutcome)
    /\ UNCHANGED <<api, packet_processor, kind, request_id, slot, sent, removed,
                   pre, hit, storeVars, readerVars, opVars, now, ipc, cur>>

\* api.send_mesh_packet(..).await? fails.
AckSendFail ==
    /\ pc = "ack_registered"
    /\ api
    /\ Return(ErrOutcome)
    /\ UNCHANGED <<api, packet_processor, kind, request_id, slot, sent, removed,
                   pre, hit, storeVars, readerVars, opVars, now, ipc, cur>>

\* api.send_mesh_packet(..).await? succeeds; the caller starts to wait on rx.
AckSendOk ==
    /\ pc = "ack_registered"
    /\ api
    /\ sent' = TRUE
    /\ pc' = "ack_wait"
    /\ UNCHANGED <<api, packet_processor, ack_waiters, route_waiters, kind, request_id, rx,
                   slot, outcome, removed, pre, hit, storeVars, readerVars, opVars, now, ipc, cur>>

\* timeout(..., rx) is Ok: the value sent is returned (unwrap_or(false) covers a
\* sender dropped without sending, which no path of the program does to a live call).
AckWaitDone ==
    /\ pc = "ack_wait"
    /\ slot.full
    /\ Return(OkAck(slot.ack))
    /\ UNCHANGED <<api, packet_processor, kind, request_id, slot, sent, removed,
                   pre, hit, storeVars, readerVars, opVars, now, ipc, cur>>

\* timeout(..., rx) is Err(Elapsed): nothing was in the channel when the timer was
\* polled; rx is dropped with the Timeout future.
AckTimeout ==
    /\ pc = "ack_wait"
    /\ ~slot.full
    /\ rx' = FALSE
    /\ ack_waiters' = DropReceiver(ack_waiters, request_id)
    /\ pc' = "ack_timedout"
    /\ UNCHANGED <<api, packet_processor, route_waiters, kind, request_id,
                   slot, outcome, sent, removed, pre, hit, storeVars, readerVars, opVars, now, ipc, cur>>

\* waiters.remove(&packet_id); return Ok(false)
AckCleanup ==
    /\ pc = "ack_timedout"
    /\ ack_waiters' = RemoveWaiter(ack_waiters, request_id)
    /\ removed' = CountRemoval("ack", ack_waiters, request_id, "caller")
    /\ outcome' = OkAck(FALSE)
    /\ pc' = "idle"
    /\ UNCHANGED <<api, packet_processor, route_waiters, kind, request_id, rx, slot, sent,
                   pre, hit, storeVars, readerVars, opVars, now, ipc, cur>>

\* ---------------------------------------------------------------- caller: send_traceroute

\* request_id = rand::random(); waiters.insert(request_id, tx)
RouteRegister(id) ==
    /\ CallerIdle
    /\ FreshCall("route", id)
    /\ route_waiters' = InsertWaiter(route_waiters, id, TRUE)
    /\ pc' = "route_registered"
    /\ UNCHANGED <<api, packet_processor, ack_waiters, storeVars, readerVars, opVars, now, ipc, cur>>

\* self.get_api()? fails: "Not connected".
RouteNotConnected ==
    /\ pc = "route_registered"
    /\ ~api
    /\ Return(NotConnectedOutcome)
    /\ UNCHANGED <<api, packet_processor, kind, request_id, slot, sent, removed,
                   pre, hit, storeVars, readerVars, opVars, now, ipc, cur>>

\* api.send_to_radio_packet(..).await? fails.
RouteSendFail ==
    /\ pc = "route_registered"
    /\ api
    /\ Return(ErrOutcome)
    /\ UNCHANGED <<api, packet_processor, kind, request_id, slot, sent, removed,
                   pre, hit, storeVars, readerVars, opVars, now, ipc, cur>>

\* api.send_to_radio_packet(..).await? succeeds; the caller starts to wait on rx.
RouteSendOk ==
    /\ pc = "route_registered"
    /\ api
    /\ sent' = TRUE
    /\ pc' = "route_wait"
    /\ UNCHANGED <<api, packet_processor, ack_waiters, route_waiters, kind, request_id, rx,
                   slot, outcome, removed, pre, hit, storeVars, readerVars, opVars, now, ipc, cur>>

\* timeout(..., rx) is Ok: the hops sent are returned.
RouteWaitDone ==
    /\ pc = "route_wait"
    /\ slot.full
    /\ Return(OkHops(slot.hops))
    /\ UNCHANGED <<api, packet_processor, kind, request_id, slot, sent, removed,
                   pre, hit, storeVars, readerVars, opVars, now, ipc, cur>>

\* timeout(..., rx) is Err(Elapsed).
RouteTimeout ==
    /\ pc = "route_wait"
    /\ ~slot.full
    /\ rx' = FALSE
    /\ route_waiters' = DropReceiver(route_waiters, request_id)
    /\ pc' = "route_timedout"
    /\ UNCHANGED <<api, packet_processor, ack_waiters, kind, request_id,
                   slot, outcome, sent, removed, pre, hit, storeVars, readerVars, opVars, now, ipc, cur>>

\* waiters.remove(&request_id); return Ok(Vec::new())
RouteCleanup ==
    /\ pc = "route_timedout"
    /\ route_waiters' = RemoveWaiter(route_waiters, request_id)
    /\ removed' = CountRemoval("route", route_waiters, request_id, "caller")
    /\ outcome' = OkHops(<<>>)
    /\ pc' = "idle"
    /\ UNCHANGED <<api, packet_processor, ack_waiters, kind, request_id, rx, slot, sent,
                   pre, hit, storeVars, readerVars, opVars, now, ipc, cur>>

\* ---------------------------------------------------------------- locks

\* The three tokio mutexes. A critical section is split into the step that takes
\* the lock and the step that does its work and drops the guard; the positions
\* in between tell who holds what.
Locks == {"device_state", "ack_waiters", "route_waiters"}

\* The positions of the RouteReply arm: the route_waiters guard is held before hop
\* i is looked up, and the DeviceState guard with it during the lookup of hop i.
LockRoute == <<286331153, 26>>
MaxHops == Len(LockRoute)
RouteLockedAt(i) == <<"route_locked_0", "route_locked_1", "route_locked_2">>[i + 1]
HopLockedAt(i) == <<"hop_locked_0", "hop_locked_1">>[i + 1]

\* The locks the caller's task holds: the insert and remove blocks of the two
\* correlated calls and the clone of get_device_state.
CallerHolds ==
    CASE pc \in {"ack_inserting", "ack_removing"} -> {"ack_waiters"}
      [] pc \in {"route_inserting", "route_removing"} -> {"route_waiters"}
      [] pc = "state_cloning" -> {"device_state"}
      [] OTHER -> {}

IngestHoldsRouteThroughAck ==
    CASE ipc \in {RouteLockedAt(i) : i \in 0..MaxHops} -> {"route_waiters"}
      [] ipc \in {HopLockedAt(i) : i \in 0..(MaxHops - 1)} -> {"route_waiters", "device_state"}
      [] ipc = "ack_locked" -> {"route_waiters", "ack_waiters"}
      [] ipc = "implicit_locked" -> {"ack_waiters"}
      [] ipc = "node_write" -> {"device_state"}
      [] OTHER -> {}

\* The locks the ingestion task holds: `waiters` of the RouteReply / ErrorReason
\* arms lives to the end of its `if` block, `state` to the end of one iteration
\* of the hop loop, `waiters` of the two ack checks to the end of their blocks,
\* `state` of a port handler to the end of its arm.
IngestHolds ==
    CASE ipc \in {RouteLockedAt(i) : i \in 0..MaxHops} -> {"route_waiters"}
      [] ipc \in {HopLockedAt(i) : i \in 0..(MaxHops - 1)} -> {"route_waiters", "device_state"}
      [] ipc \in {"ack_locked", "implicit_locked"} -> {"ack_waiters"}
      [] ipc = "node_write" -> {"device_state"}
      [] OTHER -> {}

\* The lock the caller's task is waiting for while it holds its position.
CallerWants ==
    CASE pc = "ack_timedout" -> {"ack_waiters"}
      [] pc = "route_timedout" -> {"route_waiters"}
      [] OTHER -> {}

\* The hop the RouteReply arm is about to look up, if any.
HopIndex == CHOOSE i \in 0..MaxHops : ipc = RouteLockedAt(i)

\* The lock the ingestion task is waiting for while it holds its position.
IngestWants ==
    CASE ipc \in {RouteLockedAt(i) : i \in 0..MaxHops}
           /\ cur.packet.request_id \in DOMAIN route_waiters
           /\ HopIndex < Len(cur.packet.route) -> {"device_state"}
      [] ipc = "ack_check" /\ RoutingAckApplies(cur.packet) -> {"ack_waiters"}
      [] ipc = "implicit" /\ ImplicitAckApplies(cur.packet) -> {"ack_waiters"}
      [] OTHER -> {}

\* send_text_with_ack: self.ack_waiters.lock().await of the insert block.
AckInsertLock(id) ==
    /\ CallerIdle
    /\ "ack_waiters" \notin IngestHolds
    /\ FreshCall("ack", id)
    /\ pc' = "ack_inserting"
    /\ UNCHANGED <<api, packet_processor, ack_waiters, route_waiters, storeVars, readerVars,
                   opVars, now, ipc, cur>>

\* waiters.insert(packet_id, tx); the guard is dropped with the block.
AckInsert ==
    /\ pc = "ack_inserting"
    /\ ack_waiters' = InsertWaiter(ack_waiters, request_id, TRUE)
    /\ pc' = "ack_registered"
    /\ UNCHANGED <<api, packet_processor, route_waiters, kind, request_id, rx, slot, outcome,
                   sent, removed, pre, hit, storeVars, readerVars, opVars, now, ipc, cur>>

\* self.ack_waiters.lock().await after the timeout.
AckRemoveLock ==
    /\ pc = "ack_timedout"
    /\ "ack_waiters" \notin IngestHolds
    /\ pc' = "ack_removing"
    /\ UNCHANGED <<api, packet_processor, ack_waiters, route_waiters, kind, request_id, rx,
                   slot, outcome, sent, removed, pre, hit, storeVars, readerVars, opVars,
                   now, ipc, cur>>

\* waiters.remove(&packet_id); return Ok(false)
AckRemove ==
    /\ pc = "ack_removing"
    /\ ack_waiters' = RemoveWaiter(ack_waiters, request_id)
    /\ removed' = CountRemoval("ack", ack_waiters, request_id, "caller")
    /\ outcome' = OkAck(FALSE)
    /\ pc' = "idle"
    /\ UNCHANGED <<api, packet_processor, route_waiters, kind, request_id, rx, slot, sent,
                   pre, hit, storeVars, readerVars, opVars, now, ipc, cur>>

\* send_traceroute: self.route_waiters.lock().await of the insert block.
RouteInsertLock(id) ==
    /\ CallerIdle
    /\ "route_waiters" \notin IngestHolds
    /\ FreshCall("route", id)
    /\ pc' = "route_inserting"
    /\ UNCHANGED <<api, packet_processor, ack_waiters, route_waiters, storeVars, readerVars,
                   opVars, now, ipc, cur>>

\* waiters.insert(request_id, tx); the guard is dropped with the block.
RouteInsert ==
    /\ pc = "route_inserting"
    /\ route_waiters' = InsertWaiter(route_waiters, request_id, TRUE)
    /\ pc' = "route_registered"
    /\ UNCHANGED <<api, packet_processor, ack_waiters, kind, request_id, rx, slot, outcome,
                   sent, removed, pre, hit, storeVars, readerVars, opVars, now, ipc, cur>>

\* self.route_waiters.lock().await after the timeout.
RouteRemoveLock ==
    /\ pc = "route_timedout"
    /\ "route_waiters" \notin IngestHolds
    /\ pc' = "route_removing"
    /\ UNCHANGED <<api, packet_processor, ack_waiters, route_waiters, kind, request_id, rx,
                   slot, outcome, sent, removed, pre, hit, storeVars, readerVars, opVars,
                   now, ipc, cur>>

\* waiters.remove(&request_id); return Ok(Vec::new())
RouteRemove ==
    /\ pc = "route_removing"
    /\ route_waiters' = RemoveWaiter(route_waiters, request_id)
    /\ removed' = CountRemoval("route", route_waiters, request_id, "caller")
    /\ outcome' = OkHops(<<>>)
    /\ pc' = "idle"
    /\ UNCHANGED <<api, packet_processor, ack_waiters, kind, request_id, rx, slot, sent,
                   pre, hit, storeVars, readerVars, opVars, now, ipc, cur>>

\* get_device_state: self.device_state.lock().await
GetDeviceStateLock ==
    /\ CallerIdle
    /\ "device_state" \notin IngestHolds
    /\ pc' = "state_cloning"
    /\ UNCHANGED <<api, packet_processor, ack_waiters, route_waiters, kind, request_id, rx,
                   slot, outcome, sent, removed, pre, hit, storeVars, readerVars, opVars,
                   now, ipc, cur>>

\* .clone(); the guard is dropped at the end of the statement.
GetDeviceStateClone ==
    /\ pc = "state_cloning"
    /\ snap' = device_state
    /\ snap_base' = committed
    /\ pc' = "idle"
    /\ UNCHANGED <<api, packet_processor, ack_waiters, route_waiters, kind, request_id, rx,
                   slot, outcome, sent, removed, pre, hit, storeVars, opVars, now, ipc, cur>>

\* The RouteReply / ErrorReason arm: route_waiters.lock().await
IngestRouteLock(p) ==
    /\ packet_processor
    /\ ipc = "recv"
    /\ p.payload = "decoded"
    /\ RouteLookupApplies(p)
    /\ "route_waiters" \notin CallerHolds
    /\ ipc' = RouteLockedAt(0)
    /\ cur' = PacketEnvelope(p)
    /\ UNCHANGED <<api, packet_processor, corrVars, storeVars, readerVars, opVars, now>>

\* One iteration of the hop loop of a route reply whose entry was found:
\* device_state.lock().await under the route_waiters guard.
IngestRouteHopLock ==
    /\ packet_processor
    /\ ipc \in {RouteLockedAt(i) : i \in 0..MaxHops}
    /\ cur.packet.request_id \in DOMAIN route_waiters
    /\ HopIndex < Len(cur.packet.route)
    /\ "device_state" \notin CallerHolds
    /\ ipc' = HopLockedAt(HopIndex)
    /\ state_locked' = TRUE
    /\ UNCHANGED <<api, packet_processor, corrVars, device_state, committed, last_node,
                   last_channel, readerVars, opVars, now, cur>>

\* The hop's name is read and the DeviceState guard dropped with the iteration.
IngestRouteHopUnlock ==
    /\ packet_processor
    /\ \E i \in 0..(MaxHops - 1) : ipc = HopLockedAt(i) /\ ipc' = RouteLockedAt(i + 1)
    /\ state_locked' = FALSE
    /\ UNCHANGED <<api, packet_processor, corrVars, device_state, committed, last_node,
                   last_channel, readerVars, opVars, now, cur>>

\* The end of the arm's block: the entry, if there was one, is out of the map and
\* its sender sent the hops; the route_waiters guard is dropped. (The map is not
\* visible to the caller while the guard is held, so the removal is shown here.)
IngestRouteSend ==
    /\ packet_processor
    /\ ipc \in {RouteLockedAt(i) : i \in 0..MaxHops}
    /\ LET p == cur.packet
           found == p.request_id \in DOMAIN route_waiters
       IN /\ found => HopIndex = Len(p.route)
          /\ ~found => HopIndex = 0
          /\ route_waiters' = RemoveWaiter(route_waiters, p.request_id)
          /\ slot' = IF found
                     THEN SendHops(route_waiters, p.request_id,
                                   RouteResult(device_state, p), Origin(p))
                     ELSE slot
          /\ removed' = CountRemoval("route", route_waiters, p.request_id, "ingest")
          /\ hit' = (hit \/ CarriesIssuedId(p))
          /\ cur' = PacketEnvelope(Rest(p))
    /\ ipc' = "ack_check"
    /\ UNCHANGED <<api, packet_processor, ack_waiters, pc, kind, request_id, rx, outcome,
                   sent, pre, storeVars, readerVars, opVars, now>>

\* The routing arm's ack check: ack_waiters.lock().await
IngestAckLock ==
    /\ packet_processor
    /\ ipc = "ack_check"
    /\ RoutingAckApplies(cur.packet)
    /\ "ack_waiters" \notin CallerHolds
    /\ ipc' = "ack_locked"
    /\ UNCHANGED <<api, packet_processor, corrVars, storeVars, readerVars, opVars, now, cur>>

\* waiters.remove(..) and sender.send(true); the guard is dropped with the block.
IngestAckUnlock ==
    /\ packet_processor
    /\ ipc = "ack_locked"
    /\ LET p == cur.packet
           found == AckKey(p) \in DOMAIN ack_waiters
       IN /\ ack_waiters' = RemoveWaiter(ack_waiters, AckKey(p))
          /\ slot' = IF found THEN SendAck(ack_waiters, AckKey(p), TRUE, Origin(p)) ELSE slot
          /\ removed' = CountRemoval("ack", ack_waiters, AckKey(p), "ingest")
          /\ hit' = (hit \/ CarriesIssuedId(p))
    /\ ipc' = "implicit"
    /\ cur' = PacketEnvelope(AfterRouting(cur.packet))
    /\ UNCHANGED <<api, packet_processor, route_waiters, pc, kind, request_id, rx, outcome,
                   sent, pre, storeVars, readerVars, opVars, now>>

\* The implicit-ack check: ack_waiters.lock().await
IngestImplicitLock ==
    /\ packet_processor
    /\ ipc = "implicit"
    /\ ImplicitAckApplies(cur.packet)
    /\ "ack_waiters" \notin CallerHolds
    /\ ipc' = "implicit_locked"
    /\ UNCHANGED <<api, packet_processor, corrVars, storeVars, readerVars, opVars, now, cur>>

\* waiters.remove(..) and sender.send(true); the guard is dropped with the block.
IngestImplicitUnlock ==
    /\ packet_processor
    /\ ipc = "implicit_locked"
    /\ LET p == cur.packet
           found == AckKey(p) \in DOMAIN ack_waiters
       IN /\ ack_waiters' = RemoveWaiter(ack_waiters, AckKey(p))
          /\ slot' = IF found THEN SendAck(ack_waiters, AckKey(p), TRUE, Origin(p)) ELSE slot
          /\ removed' = CountRemoval("ack", ack_waiters, AckKey(p), "ingest")
          /\ hit' = (hit \/ CarriesIssuedId(p))
    /\ ipc' = "recv"
    /\ cur' = NoEnvelope
    /\ UNCHANGED <<api, packet_processor, route_waiters, pc, kind, request_id, rx, outcome,
                   sent, pre, storeVars, readerVars, opVars, now>>

\* ---------------------------------------------------------------- pollers


\* The wall clock advances.
Tick ==
    /\ now < MaxTime
    /\ now' = now + TickSecs
    /\ UNCHANGED <<api, packet_processor, corrVars, storeVars, readerVars, opVars, ipc, cur>>

PollUnchanged ==
    UNCHANGED <<api, packet_processor, corrVars, storeVars, readerVars, packet_receiver,
                last_call, takes, now, ipc, cur>>

PollReturn(r, how) == poll' = [poll EXCEPT !.pc = "done", !.result = r, !.via = how]

RequestPositionBeginNoCache(n, t) ==
    /\ CallerIdle
    /\ ~state_locked
    /\ poll' = [NoPoll EXCEPT !.op = "request_position", !.node_num = n,
                              !.timeout_secs = t, !.began = now, !.pc = "send"]
    /\ PollUnchanged

\* request_position up to the freshness check: the snapshot is taken under the
\* DeviceState lock; an entry for the node less than FreshSecs old is returned.
RequestPositionBegin(n, t) ==
    /\ CallerIdle
    /\ ~state_locked
    /\ LET fresh == [NoPoll EXCEPT !.op = "request_position", !.node_num = n,
                                   !.timeout_secs = t, !.began = now]
       IN IF n \in DOMAIN device_state.positions
             /\ now - device_state.positions[n].last_updated < FreshSecs
          THEN poll' = [fresh EXCEPT !.pc = "done", !.via = "cache",
                                     !.result = Some(device_state.positions[n])]
          ELSE poll' = [fresh EXCEPT !.pc = "send"]
    /\ PollUnchanged

\* connection.get_api()? fails: "Not connected".
RequestPositionNotConnected ==
    /\ poll.pc = "send"
    /\ ~api
    /\ PollReturn(None, "not_connected")
    /\ PollUnchanged

\* api.send_mesh_packet(..).await? fails.
RequestPositionSendFail ==
    /\ poll.pc = "send"
    /\ api
    /\ PollReturn(None, "send_err")
    /\ PollUnchanged

\* The position request is sent; start_time = Instant::now().
RequestPositionSendOk ==
    /\ poll.pc = "send"
    /\ api
    /\ now + poll.timeout_secs <= MaxTime
    /\ poll' = [poll EXCEPT !.pc = "check", !.requests = @ + 1, !.start_time = now]
    /\ PollUnchanged

RequestPositionPollNoDeadline ==
    /\ poll.pc = "check"
    /\ poll.op = "request_position"
    /\ ~state_locked
    /\ LET n == poll.node_num
       IN IF n \in DOMAIN device_state.positions
             /\ device_state.positions[n].last_updated > now - poll.timeout_secs
          THEN PollReturn(Some(device_state.positions[n]), "poll")
          ELSE poll' = [poll EXCEPT !.pc = "sleep"]
    /\ PollUnchanged

\* One turn of request_position's loop: past the deadline the loop ends with
\* Ok(None); before it, the snapshot's entry for the node is returned if its
\* last_updated > current_time - timeout_secs, else the loop sleeps.
RequestPositionPoll ==
    /\ poll.pc = "check"
    /\ poll.op = "request_position"
    /\ IF now - poll.start_time >= poll.timeout_secs
       THEN PollReturn(None, "deadline")
       ELSE /\ ~state_locked
            /\ LET n == poll.node_num
               IN IF n \in DOMAIN device_state.positions
                     /\ device_state.positions[n].last_updated > now - poll.timeout_secs
                  THEN PollReturn(Some(device_state.positions[n]), "poll")
                  ELSE poll' = [poll EXCEPT !.pc = "sleep"]
    /\ PollUnchanged

\* tokio::time::sleep(..).await of a polling loop returns.
PollSleep ==
    /\ poll.pc = "sleep"
    /\ poll' = [poll EXCEPT !.pc = "check"]
    /\ PollUnchanged

\* The device metrics cached for node n, if any.
DeviceMetricsOf(ds, n) ==
    IF n \in DOMAIN ds.telemetry THEN ds.telemetry[n].device_metrics ELSE None

\* collect_telemetry up to its loop: without local node info it returns Ok(None);
\* initial_time is the wall clock if device metrics of the local node are cached.
CollectTelemetryBegin(t) ==
    /\ CallerIdle
    /\ now + t <= MaxTime
    /\ ~state_locked
    /\ LET fresh == [NoPoll EXCEPT !.op = "collect_telemetry", !.timeout_secs = t,
                                   !.began = now, !.start_time = now]
       IN IF device_state.my_node_info = None
          THEN poll' = [fresh EXCEPT !.pc = "done", !.via = "no_local_node"]
          ELSE LET local == device_state.my_node_info[1].node_num
               IN poll' = [fresh EXCEPT
                     !.pc = "check", !.node_num = local,
                     !.initial_time = IF DeviceMetricsOf(device_state, local) # None
                                      THEN Some(now) ELSE None]
    /\ PollUnchanged

\* One turn of collect_telemetry's loop: past the deadline the loop ends; before
\* it, cached device metrics of the local node are returned if none were cached at
\* the start or the telemetry's time is later than initial_time.
CollectTelemetryPoll ==
    /\ poll.pc = "check"
    /\ poll.op = "collect_telemetry"
    /\ IF now - poll.start_time >= poll.timeout_secs
       THEN poll' = [poll EXCEPT !.pc = "final"]
       ELSE /\ ~state_locked
            /\ LET n == poll.node_num
                   m == DeviceMetricsOf(device_state, n)
               IN IF m # None
                     /\ (poll.initial_time = None
                         \/ device_state.telemetry[n].time > poll.initial_time[1])
                  THEN PollReturn(m, "poll")
                  ELSE poll' = [poll EXCEPT !.pc = "sleep"]
    /\ PollUnchanged

\* After the loop: whatever device metrics are cached for the local node.
CollectTelemetryFinal ==
    /\ poll.pc = "final"
    /\ poll.op = "collect_telemetry"
    /\ ~state_locked
    /\ PollReturn(DeviceMetricsOf(device_state, poll.node_num), "deadline")
    /\ PollUnchanged

\* collect_positions up to its loop.
CollectPositionsBegin(t) ==
    /\ CallerIdle
    /\ now + t <= MaxTime
    /\ ~state_locked
    /\ poll' = [NoPoll EXCEPT !.op = "collect_positions", !.timeout_secs = t, !.began = now,
                              !.start_time = now, !.last_check_time = now, !.pc = "check",
                              !.initial_count = Cardinality(DOMAIN device_state.positions)]
    /\ PollUnchanged

\* The positions of the snapshot updated after last_check_time, put into the
\* collected map.
Collect(collected, positions, since) ==
    [n \in DOMAIN collected \cup {k \in DOMAIN positions : positions[k].last_updated > since} |->
        IF n \in DOMAIN positions /\ positions[n].last_updated > since
        THEN positions[n] ELSE collected[n]]

\* One turn of collect_positions' loop.
CollectPositionsPoll ==
    /\ poll.pc = "check"
    /\ poll.op = "collect_positions"
    /\ IF now - poll.start_time >= poll.timeout_secs
       THEN poll' = [poll EXCEPT !.pc = "final"]
       ELSE /\ ~state_locked
            /\ poll' = [poll EXCEPT
                  !.collected_positions =
                      Collect(@, device_state.positions, poll.last_check_time),
                  !.last_check_time = now,
                  !.pc = "sleep"]
    /\ PollUnchanged

\* new_count = all_positions.len() - initial_count, as the number it is when the
\* usize subtraction does not underflow.
NewCount(all_positions, initial_count) == Cardinality(DOMAIN all_positions) - initial_count

\* After the loop: the final snapshot's positions, overwritten by the collected ones.
CollectPositionsFinal ==
    /\ poll.pc = "final"
    /\ poll.op = "collect_positions"
    /\ ~state_locked
    /\ PollReturn(Some([n \in DOMAIN device_state.positions
                              \cup DOMAIN poll.collected_positions |->
                          IF n \in DOMAIN poll.collected_positions
                          THEN poll.collected_positions[n]
                          ELSE device_state.positions[n]]), "deadline")
    /\ PollUnchanged

\* ---------------------------------------------------------------- specifications

\* ConnectionManager::new
Init ==
    /\ api = FALSE
    /\ packet_processor = FALSE
    /\ ack_waiters = EmptyMap
    /\ route_waiters = EmptyMap
    /\ device_state = NewDeviceState
    /\ state_locked = FALSE
    /\ now = Epoch
    /\ pc = "idle"
    /\ kind = "none"
    /\ request_id = 0
    /\ rx = FALSE
    /\ slot = EmptySlot
    /\ outcome = NoOutcome
    /\ sent = FALSE
    /\ removed = <<>>
    /\ pre = {}
    /\ hit = FALSE
    /\ ipc = "recv"
    /\ cur = NoEnvelope
    /\ snap = NewDeviceState
    /\ snap_base = NewDeviceState
    /\ committed = NewDeviceState
    /\ last_node = EmptyMap
    /\ last_channel = [before |-> <<>>, channel |-> None]
    /\ poll = NoPoll
    /\ packet_receiver = FALSE
    /\ last_call = NoCall
    /\ takes = 0

\* The mesh packets of port `port`: every request id, a zero and a non-zero packet
\* id, want_ack set and clear.
PortPackets(port) ==
    {[DecodedPacket(port, rid, pid, wa) EXCEPT
         !.text = <<"hi">>, !.latlon = Some(<<407000000, 20>>),
         !.metric = "device", !.config = "lora", !.value = 7] :
       rid \in Ids, pid \in {0, 1}, wa \in BOOLEAN}

\* The routing packets: every variant ("none": no variant, or a payload that does
\* not decode), every request id, a zero and a non-zero packet id, want_ack set and clear.
RoutingPackets ==
    {[DecodedPacket("routing", rid, pid, wa) EXCEPT
         !.variant = v, !.ok = (v # "none"),
         !.route = IF v = "route_reply" THEN <<286331153, 26>> ELSE <<>>] :
       v \in {"route_reply", "error_reason", "route_request", "none"},
       rid \in Ids, pid \in {0, 1}, wa \in BOOLEAN}

\* The packets of the correlation runs: routing packets, packets of a port
\* without handler, a packet without payload and an encrypted one.
CorrPackets ==
    RoutingPackets \cup PortPackets("other")
    \cup {NoPacket, [NoPacket EXCEPT !.payload = "encrypted"]}

Next ==
    \/ Connect
    \/ Disconnect
    \/ \E id \in Ids : AckRegister(id)
    \/ AckNotConnected
    \/ AckSendFail
    \/ AckSendOk
    \/ AckWaitDone
    \/ AckTimeout
    \/ AckCleanup
    \/ \E id \in Ids : RouteRegister(id)
    \/ RouteNotConnected
    \/ RouteSendFail
    \/ RouteSendOk
    \/ RouteWaitDone
    \/ RouteTimeout
    \/ RouteCleanup
    \/ \E p \in CorrPackets : IngestPacket(p)
    \/ IngestAckCheck
    \/ IngestImplicit

Spec == Init /\ [][Next]_vars

\* The port categories process_mesh_packet distinguishes.
Ports == {"text", "position", "telemetry", "admin", "routing", "other"}

\* The packets of the port runs: one of every port category for every request id,
\* packet id and want_ack; the routing ones carry an error reason.
AllPortPackets ==
    {[p EXCEPT !.variant = IF p.portnum = "routing" THEN "error_reason" ELSE "none"] :
       p \in UNION {PortPackets(port) : port \in Ports}}

\* Acknowledged sends against packets of every port category, on an open session.
NextPorts ==
    \/ Connect
    \/ \E id \in Ids : AckRegister(id)
    \/ AckNotConnected
    \/ AckSendFail
    \/ AckSendOk
    \/ AckWaitDone
    \/ AckTimeout
    \/ AckCleanup
    \/ \E p \in AllPortPackets :
          /\ p.portnum = "text" => Len(device_state.messages) < MaxMessages
          /\ IngestPacket(p)
    \/ IngestAckCheck
    \/ IngestImplicit

SpecPorts == Init /\ [][NextPorts]_vars

\* The node-identity, channel and local-identity envelopes of the store runs.
NodeInfos ==
    {[num |-> n, user |-> u, last_heard |-> h, snr |-> 0] :
       n \in {286331153, 572662306, 26},
       u \in {None, Some([id |-> <<"!a">>, long_name |-> <<"Alice">>,
                          short_name |-> <<"A">>, hw_model |-> 4])},
       h \in {100, 200}}

Channels ==
    {[index |-> i, settings |-> st, role |-> r] :
       i \in 0..MaxChannel,
       st \in {None, Some([name |-> <<"LongFast">>, psk |-> <<1>>]),
               Some([name |-> <<"Open">>, psk |-> <<>>])},
       r \in {1, 2}}

MyInfos ==
    {[my_node_num |-> 286331153, reboot_count |-> r, min_app_version |-> 30200,
      device_id |-> <<171, 5>>] : r \in {1}}

NextStore ==
    \/ Connect
    \/ Disconnect
    \/ \E n \in NodeInfos : IngestNodeInfoBegin(n)
    \/ IngestNodeInfoEnd
    \/ \E m \in MyInfos : IngestMyInfo(m)
    \/ IngestIgnored
    \/ GetDeviceState

SpecStore == Init /\ [][NextStore]_vars

NextChannels ==
    \/ Connect
    \/ Disconnect
    \/ \E c \in Channels : IngestChannelBegin(c)
    \/ IngestChannelEnd
    \/ IngestIgnored

SpecChannels == Init /\ [][NextChannels]_vars

\* The envelopes of the polling runs: a position and a telemetry packet of node
\* 26 (device metrics, with a device clock at zero or ahead), the local identity
\* naming node 26, and one node identity.
PollPackets ==
    {[DecodedPacket("position", 0, 0, FALSE) EXCEPT !.latlon = Some(<<407000000, 20>>)]}
    \cup {[DecodedPacket("telemetry", 0, 0, FALSE) EXCEPT
              !.metric = "device", !.value = 7, !.ptime = pt] : pt \in {0, MaxTime}}

PollMyInfos == {[m EXCEPT !.my_node_num = 26] : m \in MyInfos}

PollNodeInfos == {n \in NodeInfos : n.num = 26 /\ n.user # None /\ n.last_heard = 100}

NextPoll ==
    \/ Connect
    \/ Disconnect
    \/ Tick
    \/ \E t \in Timeouts : RequestPositionBegin(26, t)
    \/ RequestPositionNotConnected
    \/ RequestPositionSendFail
    \/ RequestPositionSendOk
    \/ RequestPositionPoll
    \/ \E t \in Timeouts : CollectTelemetryBegin(t)
    \/ CollectTelemetryPoll
    \/ CollectTelemetryFinal
    \/ \E t \in Timeouts : CollectPositionsBegin(t)
    \/ CollectPositionsPoll
    \/ CollectPositionsFinal
    \/ PollSleep
    \/ \E p \in PollPackets : IngestPacket(p)
    \/ IngestImplicit
    \/ \E m \in PollMyInfos : IngestMyInfo(m)
    \/ \E n \in PollNodeInfos : IngestNodeInfoBegin(n)
    \/ IngestNodeInfoEnd

SpecPoll == Init /\ [][NextPoll]_vars

\* The polling call in progress takes a step.
PollStep ==
    \/ RequestPositionNotConnected
    \/ RequestPositionSendFail
    \/ RequestPositionSendOk
    \/ RequestPositionPoll
    \/ CollectTelemetryPoll
    \/ CollectTelemetryFinal
    \/ CollectPositionsPoll
    \/ CollectPositionsFinal
    \/ PollSleep

\* The runtime keeps the clock, the ingestion task and the caller's future running;
\* the tokio Mutex hands the DeviceState lock out in FIFO order, so a poller that
\* waits for it gets it.
FairSpecPoll ==
    /\ SpecPoll
    /\ WF_vars(Tick)
    /\ WF_vars(IngestNodeInfoEnd)
    /\ SF_vars(PollStep)

\* The envelopes of the route runs: route replies and error reasons for every
\* request id, and the identity of the route's first node, with and without a user.
RoutePackets == {p \in RoutingPackets : p.variant \in {"route_reply", "error_reason"}
                                         /\ p.id = 0 /\ ~p.want_ack}

RouteNodeInfos == {n \in NodeInfos : n.num = 286331153 /\ n.last_heard = 100}

NextRoute ==
    \/ Connect
    \/ Disconnect
    \/ \E id \in Ids : RouteRegister(id)
    \/ RouteNotConnected
    \/ RouteSendFail
    \/ RouteSendOk
    \/ RouteWaitDone
    \/ RouteTimeout
    \/ RouteCleanup
    \/ \E p \in RoutePackets : IngestPacket(p)
    \/ IngestAckCheck
    \/ IngestImplicit
    \/ \E n \in RouteNodeInfos : IngestNodeInfoBegin(n)
    \/ IngestNodeInfoEnd

SpecRoute == Init /\ [][NextRoute]_vars

\* The keys of the config runs: known and unknown fields of a validated
\* category, a category without arm, an unknown category, a key without '.'.
ConfigKeys ==
    {<<"lora", "region">>, <<"lora", "bogus">>, <<"device", "role">>, <<"power", "bogus">>,
     <<"bogus", "region">>, <<"lora">>}

\* The envelopes of the config runs: config responses of three cached categories,
\* of a category that is not cached and without payload, each with two values
\* and with a payload that decodes or does not.
SessionPackets ==
    {[DecodedPacket("admin", 0, 0, FALSE) EXCEPT !.config = c, !.value = v, !.ok = ok] :
        c \in {"lora", "power", "device", "security", "none"}, v \in {7, 8}, ok \in BOOLEAN}

\* The session operations before, during and after a session, in runs where
\* every send fails.
NextSession ==
    \/ Connect
    \/ Disconnect
    \/ \E op \in SessionOps \cup AdminKeyOps : SessionOp(op)
    \/ \E key \in ConfigKeys : GetConfigBegin(key)
    \/ GetConfigEnd
    \/ AckRegister(1)
    \/ AckNotConnected
    \/ AckSendFail
    \/ RouteRegister(1)
    \/ RouteNotConnected
    \/ RouteSendFail
    \/ \E t \in Timeouts : RequestPositionBegin(26, t)
    \/ RequestPositionNotConnected
    \/ RequestPositionSendFail

SpecSession == Init /\ [][NextSession]_vars

\* Config reads against config responses being cached.
NextConfig ==
    \/ Connect
    \/ Disconnect
    \/ \E key \in ConfigKeys : GetConfigBegin(key)
    \/ GetConfigEnd
    \/ \E p \in SessionPackets : IngestPacket(p)
    \/ IngestImplicit

SpecConfig == Init /\ [][NextConfig]_vars

\* The envelopes of the ingestion runs: a packet without payload, an encrypted
\* one, a packet of a port without handler, and for the ports with a decoder a
\* payload that decodes and one that does not.
IngestPackets ==
    {NoPacket, [NoPacket EXCEPT !.payload = "encrypted"], DecodedPacket("other", 0, 0, FALSE)}
    \cup {[DecodedPacket(port, 0, 0, FALSE) EXCEPT
              !.ok = ok, !.latlon = Some(<<407000000, 20>>), !.metric = "device",
              !.config = "lora", !.value = 7] :
            port \in {"position", "telemetry", "admin", "routing"}, ok \in BOOLEAN}

IngestChannels == {c \in Channels : c.index = 0 /\ c.role = 1}

\* A session's life: connects that succeed and fail, disconnects, the raw stream
\* being asked for, and envelopes of every kind arriving.
NextIngest ==
    \/ Connect
    \/ ConnectFail
    \/ Disconnect
    \/ TakePacketReceiver
    \/ \E p \in IngestPackets : IngestPacket(p)
    \/ IngestAckCheck
    \/ IngestImplicit
    \/ \E n \in RouteNodeInfos : IngestNodeInfoBegin(n)
    \/ IngestNodeInfoEnd
    \/ \E c \in IngestChannels : IngestChannelBegin(c)
    \/ IngestChannelEnd
    \/ \E m \in MyInfos : IngestMyInfo(m)
    \/ IngestIgnored

SpecIngest == Init /\ [][NextIngest]_vars

\* The envelopes of the data runs: positions of two nodes with two coordinate
\* pairs or none, telemetry of two nodes with each metric set or another
\* variant, with a payload timestamp that is not the wall clock; each also with a
\* payload that does not decode.
DataPackets ==
    {[DecodedPacket("position", 0, 0, FALSE) EXCEPT
         !.from = f, !.latlon = ll, !.ptime = 5, !.ok = ok] :
       f \in {26, 27}, ll \in {None, Some(<<407000000, 20>>), Some(<<-1, 3>>)},
       ok \in BOOLEAN}
    \cup {[DecodedPacket("telemetry", 0, 0, FALSE) EXCEPT
              !.from = f, !.metric = m, !.value = 7, !.ptime = 5, !.ok = ok] :
            f \in {26, 27}, m \in {"device", "environment", "air_quality", "power"},
            ok \in BOOLEAN}

\* Position and telemetry envelopes being stored, and positions being read.
NextData ==
    \/ Connect
    \/ Disconnect
    \/ \E p \in DataPackets : IngestPacket(p)
    \/ IngestImplicit
    \/ \E m \in PollMyInfos : IngestMyInfo(m)
    \/ \E n \in {None, Some(26), Some(27)} : GetPosition(n)

SpecData == Init /\ [][NextData]_vars

\* The envelopes of the message runs: two texts, with and without the request id
\* and packet id that make the packet an implicit ack, and routing acks.
TextPackets ==
    {[DecodedPacket("text", rid, rid, FALSE) EXCEPT !.text = t] :
       t \in {<<"hi">>, <<"yo">>}, rid \in {0, 1}}

\* Acknowledged sends and snapshots against text messages being logged.
NextMessages ==
    \/ Connect
    \/ Disconnect
    \/ AckRegister(1)
    \/ AckNotConnected
    \/ AckSendFail
    \/ AckSendOk
    \/ AckWaitDone
    \/ AckTimeout
    \/ AckCleanup
    \/ \E p \in TextPackets : Len(device_state.messages) < MaxLog /\ IngestPacket(p)
    \/ \E p \in {q \in RoutingPackets : q.variant = "none" /\ q.id = 0 /\ ~q.want_ack} :
          IngestPacket(p)
    \/ IngestAckCheck
    \/ IngestImplicit
    \/ GetDeviceState

SpecMessages == Init /\ [][NextMessages]_vars

\* The envelopes of the reply runs: the correlation packets that carry request
\* id 1 or none.
ReplyPackets == {p \in CorrPackets : p.request_id \in {0, 1}}

\* Both correlated calls under id 1 against replies, acks and unrelated packets.
NextReply ==
    \/ Connect
    \/ Disconnect
    \/ AckRegister(1)
    \/ AckNotConnected
    \/ AckSendFail
    \/ AckSendOk
    \/ AckWaitDone
    \/ AckTimeout
    \/ AckCleanup
    \/ RouteRegister(1)
    \/ RouteNotConnected
    \/ RouteSendFail
    \/ RouteSendOk
    \/ RouteWaitDone
    \/ RouteTimeout
    \/ RouteCleanup
    \/ \E p \in ReplyPackets : IngestPacket(p)
    \/ IngestAckCheck
    \/ IngestImplicit

SpecReply == Init /\ [][NextReply]_vars

\* The envelopes of the abort runs: a route reply and a routing packet without
\* variant, both carrying request id 1.
AbortPackets ==
    {[DecodedPacket("routing", 1, 0, FALSE) EXCEPT
         !.variant = v, !.ok = (v # "none"),
         !.route = IF v = "route_reply" THEN <<286331153, 26>> ELSE <<>>] :
       v \in {"route_reply", "none"}}

\* Both correlated calls against an ingestion task that is aborted by disconnect
\* or ends with its stream.
NextAbort ==
    \/ Connect
    \/ Disconnect
    \/ StreamEnd
    \/ AckRegister(1)
    \/ AckNotConnected
    \/ AckSendFail
    \/ AckSendOk
    \/ AckWaitDone
    \/ AckTimeout
    \/ AckCleanup
    \/ RouteRegister(1)
    \/ RouteNotConnected
    \/ RouteSendFail
    \/ RouteSendOk
    \/ RouteWaitDone
    \/ RouteTimeout
    \/ RouteCleanup
    \/ \E p \in AbortPackets : IngestPacket(p)
    \/ IngestAckCheck
    \/ IngestImplicit

SpecAbort == Init /\ [][NextAbort]_vars

\* The timer of tokio::time::timeout fires and the caller's task is scheduled.
FairSpecAbort ==
    /\ SpecAbort
    /\ WF_vars(AckTimeout) /\ WF_vars(AckCleanup)
    /\ WF_vars(RouteTimeout) /\ WF_vars(RouteCleanup)

\* The envelopes of the lock runs, all carrying request id 1: a route reply of two
\* hops, an error reason, and a routing packet without variant whose own id is
\* not 0 (an implicit ack); and the identity of the route's first node.
LockPackets ==
    {[DecodedPacket("routing", 1, pid, FALSE) EXCEPT
         !.variant = v, !.ok = (v # "none"),
         !.route = IF v = "route_reply" THEN LockRoute ELSE <<>>] :
       v \in {"route_reply", "error_reason", "none"}, pid \in {0, 1}}

\* The two tasks at the grain of their lock acquisitions.
NextLocks ==
    \/ Connect
    \/ AckInsertLock(1)
    \/ AckInsert
    \/ AckNotConnected
    \/ AckSendFail
    \/ AckSendOk
    \/ AckWaitDone
    \/ AckTimeout
    \/ AckRemoveLock
    \/ AckRemove
    \/ RouteInsertLock(1)
    \/ RouteInsert
    \/ RouteNotConnected
    \/ RouteSendFail
    \/ RouteSendOk
    \/ RouteWaitDone
    \/ RouteTimeout
    \/ RouteRemoveLock
    \/ RouteRemove
    \/ GetDeviceStateLock
    \/ GetDeviceStateClone
    \/ \E p \in LockPackets : ~RouteLookupApplies(p) /\ IngestPacket(p)
    \/ \E p \in LockPackets : IngestRouteLock(p)
    \/ IngestRouteHopLock
    \/ IngestRouteHopUnlock
    \/ IngestRouteSend
    \/ IngestAckLock
    \/ IngestAckUnlock
    \/ IngestImplicitLock
    \/ ~ImplicitAckApplies(cur.packet) /\ IngestImplicit
    \/ IngestImplicitUnlock
    \/ \E n \in RouteNodeInfos : "device_state" \notin CallerHolds /\ IngestNodeInfoBegin(n)
    \/ IngestNodeInfoEnd

SpecLocks == Init /\ [][NextLocks]_vars

\* The envelopes of the frame runs: a lora config response with one of two
\* values, a position of node 26, and a route reply for request id 1 (an
\* acknowledgement of packet 1 as well).
FramePackets ==
    {[DecodedPacket("admin", 0, 0, FALSE) EXCEPT !.config = "lora", !.value = v] :
        v \in {7, 8}}
    \cup {[DecodedPacket("position", 0, 0, FALSE) EXCEPT !.latlon = Some(<<407000000, 20>>)],
          [DecodedPacket("routing", 1, 0, FALSE) EXCEPT !.variant = "route_reply",
                                                        !.route = <<26>>]}

SetConfigInputs ==
    {<<<<"lora", "region">>, "EU868">>, <<<<"lora", "region">>, "ROUTER">>,
     <<<<"device", "role">>, "ROUTER">>, <<<<"lora", "bogus">>, "EU868">>,
     <<<<"power", "ls_secs">>, "EU868">>, <<<<"lora">>, "EU868">>}

\* A step of a read or a config operation.
ReadStep ==
    \/ GetDeviceState
    \/ GetPosition(Some(26))
    \/ GetConfigBegin(<<"lora", "region">>)
    \/ GetConfigEnd
    \/ \E i \in SetConfigInputs : SetConfigValue(i[1], i[2])
    \/ ListConfig

\* A step of a polling operation.
PollerStep ==
    \/ RequestPositionBegin(26, FreshSecs)
    \/ RequestPositionNotConnected
    \/ RequestPositionSendFail
    \/ RequestPositionSendOk
    \/ RequestPositionPoll
    \/ CollectTelemetryBegin(FreshSecs)
    \/ CollectTelemetryPoll
    \/ CollectTelemetryFinal
    \/ CollectPositionsBegin(FreshSecs)
    \/ CollectPositionsPoll
    \/ CollectPositionsFinal
    \/ PollSleep

\* A step of a correlated send.
CorrStep ==
    \/ AckRegister(1)
    \/ AckNotConnected
    \/ AckSendFail
    \/ AckSendOk
    \/ AckWaitDone
    \/ AckTimeout
    \/ AckCleanup
    \/ RouteRegister(1)
    \/ RouteNotConnected
    \/ RouteSendFail
    \/ RouteSendOk
    \/ RouteWaitDone
    \/ RouteTimeout
    \/ RouteCleanup

\* A step of an operation the caller invokes.
CallerStep == ReadStep \/ PollerStep \/ CorrStep

\* No read or config operation, no poller, no correlated send has been called yet.
NoReadYet == last_call.op \in {"new", "connect", "disconnect"} /\ snap = NewDeviceState
NoPollYet == poll = NoPoll
NoCorrYet == kind = "none"

\* Every caller operation against config, position and ack envelopes being
\* ingested, in runs that stay within one family of operations (the families
\* share nothing but the session and the DeviceState they read).
NextFrame ==
    \/ Connect
    \/ Disconnect
    \/ NoReadYet /\ NoCorrYet /\ Tick
    \/ NoPollYet /\ NoCorrYet /\ ReadStep
    \/ NoReadYet /\ NoCorrYet /\ PollerStep
    \/ NoReadYet /\ NoPollYet /\ CorrStep
    \/ \E p \in FramePackets : IngestPacket(p)
    \/ IngestAckCheck
    \/ IngestImplicit

SpecFrame == Init /\ [][NextFrame]_vars

\* ---------------------------------------------------------------- properties

\* C1: for a call whose outbound send succeeded, the entry is taken out of its
\* registry exactly once (by the ingestion task or by the caller), its oneshot
\* channel receives at most one value, a value received is the value returned, and a
\* call that received none (its reply came late or never) returns its negative outcome.
C1_EntryRemovedExactlyOnce ==
    /\ Len(removed) <= 1
    /\ slot.n <= 1
    /\ slot.full => removed = <<"ingest">>
    /\ (sent /\ pc = "idle") =>
          /\ Len(removed) = 1
          /\ kind = "ack" => request_id \notin DOMAIN ack_waiters
          /\ kind = "route" => request_id \notin DOMAIN route_waiters
          /\ (kind = "ack" /\ slot.full) => outcome = OkAck(slot.ack)
          /\ (kind = "route" /\ slot.full) => outcome = OkHops(slot.hops)
          /\ (kind = "ack" /\ ~slot.full) => outcome = OkAck(FALSE)
          /\ (kind = "route" /\ ~slot.full) => outcome = OkHops(<<>>)

\* A matching reply was processed after the timeout fired and before the caller's
\* own remove: the ingestion task removed the entry, nothing was delivered, and the
\* call returned Ok(false).
C1_LateReplyWitness ==
    /\ pc = "idle"
    /\ sent
    /\ kind = "ack"
    /\ removed = <<"ingest">>
    /\ ~slot.full
    /\ outcome = OkAck(FALSE)

\* C2: a call whose send succeeded and during which no envelope carrying its id
\* was processed has returned Ok(false) / Ok(empty hop list), its registry does not
\* contain its id, and the registry holds exactly the ids it held before the call.
C2_TimeoutRestoresRegistry ==
    (pc = "idle" /\ sent /\ ~hit) =>
        /\ kind = "ack" =>
              /\ outcome = OkAck(FALSE)
              /\ request_id \notin DOMAIN ack_waiters
              /\ DOMAIN ack_waiters = pre
        /\ kind = "route" =>
              /\ outcome = OkHops(<<>>)
              /\ request_id \notin DOMAIN route_waiters
              /\ DOMAIN route_waiters = pre

\* C3: a send_text_with_ack call whose wait was completed by a routing envelope
\* carrying an error reason returns Ok(false), and its id is not in ack_waiters.
C3_ErrorReasonReturnsFalse ==
    (kind = "ack" /\ slot.by = "error_reason" /\ pc = "idle" /\ sent) =>
        /\ outcome = OkAck(FALSE)
        /\ request_id \notin DOMAIN ack_waiters

\* C4: the routing arm's ack check on an envelope whose request id is not 0 and is
\* the id of the pending send_text_with_ack call removes the entry and sends true,
\* whatever the routing variant; the call, once its send has succeeded, returns Ok(true).
C4_RoutingAckResolves ==
    /\ [][(/\ ipc = "ack_check"
           /\ ipc' = "implicit"
           /\ kind = "ack"
           /\ pc \in {"ack_registered", "ack_wait"}
           /\ cur.packet.request_id # 0
           /\ cur.packet.request_id = request_id
           /\ request_id \in DOMAIN ack_waiters)
          => (/\ slot'.full
              /\ slot'.ack
              /\ slot'.by = cur.packet.variant
              /\ request_id \notin DOMAIN ack_waiters')]_vars
    /\ [](/\ kind = "ack"
          /\ slot.by \in {"route_reply", "error_reason", "route_request", "none"}
          /\ pc = "idle"
          /\ sent
          => outcome = OkAck(TRUE))

\* A routing envelope that is neither a route reply nor an error reason completed
\* the wait, and the call returned Ok(true).
C4_RoutingAckWitness ==
    /\ kind = "ack"
    /\ slot.by = "route_request"
    /\ request_id # 0
    /\ pc = "idle"
    /\ sent
    /\ outcome = OkAck(TRUE)

C6_DuplicateReplyIgnored ==
    [][(/\ pc = "idle"
        /\ sent
        /\ outcome.tag = "ok"
        /\ ipc = "recv"
        /\ ipc' # "recv"
        /\ cur'.kind = "packet"
        /\ cur'.packet.request_id = request_id)
       => UNCHANGED <<ack_waiters, route_waiters, slot>>]_vars

\* C7: every id in ack_waiters or route_waiters is the id of the current call, of
\* that registry's kind, which has registered and not yet returned.
C7_RegistryIdsArePending ==
    /\ \A id \in DOMAIN ack_waiters :
          kind = "ack" /\ id = request_id
          /\ pc \in {"ack_registered", "ack_wait", "ack_timedout"}
    /\ \A id \in DOMAIN route_waiters :
          kind = "route" /\ id = request_id
          /\ pc \in {"route_registered", "route_wait", "route_timedout"}

\* C8: between two envelopes the nodes map has one record for every node number
\* seen and no other; the record of n holds the fields of the last envelope
\* processed for n and none of an earlier one, and its id is eight lowercase hex
\* digits that read as n.
C8_NodesLastWriteWins ==
    ~state_locked =>
        /\ DOMAIN device_state.nodes = DOMAIN last_node
        /\ \A n \in DOMAIN last_node :
              LET rec == device_state.nodes[n]
                  env == last_node[n]
                  digit(c) == CHOOSE d \in 0..15 : HexDigits[d + 1] = c
              IN /\ rec.num = n
                 /\ env.num = n
                 /\ Len(rec.id) = 8
                 /\ \A i \in 1..8 : \E d \in 0..15 : HexDigits[d + 1] = rec.id[i]
                 /\ n = digit(rec.id[1]) * 268435456 + digit(rec.id[2]) * 16777216
                        + digit(rec.id[3]) * 1048576 + digit(rec.id[4]) * 65536
                        + digit(rec.id[5]) * 4096 + digit(rec.id[6]) * 256
                        + digit(rec.id[7]) * 16 + digit(rec.id[8])
                 /\ (n = 286331153 => rec.id = <<"1", "1", "1", "1", "1", "1", "1", "1">>)
                 /\ (n = 26 => rec.id = <<"0", "0", "0", "0", "0", "0", "1", "a">>)
                 /\ rec.last_heard = <<env.last_heard>>
                 /\ rec.snr = <<env.snr>>
                 /\ IF env.user = <<>>
                    THEN /\ rec.user.id = <<>>
                         /\ rec.user.long_name = <<>>
                         /\ rec.user.short_name = <<>>
                    ELSE /\ rec.user.id = env.user[1].id
                         /\ rec.user.long_name = env.user[1].long_name
                         /\ rec.user.short_name = env.user[1].short_name

\* Two node numbers are cached, and the record of one of them was overwritten by a
\* later envelope: a snapshot taken earlier holds a different record for it.
C8_OverwrittenWitness ==
    /\ ~state_locked
    /\ Cardinality(DOMAIN device_state.nodes) = 2
    /\ 26 \in DOMAIN snap.nodes
    /\ 26 \in DOMAIN device_state.nodes
    /\ snap.nodes[26].user.long_name = <<"Alice">>
    /\ device_state.nodes[26].user.long_name = <<>>
    /\ snap.nodes[26].last_heard # device_state.nodes[26].last_heard

\* C9: between two envelopes no two records of channels have the same index, and
\* channels is what the last channel envelope makes of the channels before it: with
\* its index present, the same length, the record of that index now the envelope's
\* and every other record where and what it was; with its index absent, the
\* channels before it followed by the envelope's record.
C9_ChannelsUniqueByIndex ==
    ~state_locked =>
        LET chs == device_state.channels
            before == last_channel.before
        IN /\ \A i, j \in 1..Len(chs) : chs[i].index = chs[j].index => i = j
           /\ last_channel.channel # <<>> =>
                LET c == last_channel.channel[1]
                IN IF \E k \in 1..Len(before) : before[k].index = c.index
                   THEN /\ Len(chs) = Len(before)
                        /\ \A k \in 1..Len(before) :
                              IF before[k].index = c.index
                              THEN chs[k] = ChannelInfoOf(c)
                              ELSE chs[k] = before[k]
                   ELSE /\ Len(chs) = Len(before) + 1
                        /\ \A k \in 1..Len(before) : chs[k] = before[k]
                        /\ chs[Len(chs)] = ChannelInfoOf(c)

\* The first of two channel records was replaced in place by a record of other content.
C9_ReplacedInPlaceWitness ==
    /\ ~state_locked
    /\ Len(device_state.channels) = 2
    /\ Len(last_channel.before) = 2
    /\ last_channel.channel # <<>>
    /\ last_channel.before[1].index = last_channel.channel[1].index
    /\ last_channel.before[1] # device_state.channels[1]
    /\ last_channel.before[2] = device_state.channels[2]

\* C10: the snapshot get_device_state returned is the DeviceState as it was after
\* the last whole envelope before the call, and no step of the ingestion task
\* changes a snapshot already returned.
C10_SnapshotIsWholeAndIndependent ==
    /\ [](snap = snap_base)
    /\ [][(ipc' # ipc \/ device_state' # device_state) => snap' = snap]_vars

\* A snapshot taken while the ingestion task runs holds the local identity and one
\* node; the store has since taken in another node.
C10_SnapshotWitness ==
    /\ packet_processor
    /\ snap.my_node_info # <<>>
    /\ Cardinality(DOMAIN snap.nodes) = 1
    /\ Cardinality(DOMAIN device_state.nodes) = 2

\* C11: request_position, collect_telemetry and collect_positions each return once
\* started, whatever is or is not ingested meanwhile: a polling call in progress
\* leads to its return, and a loop turn past the deadline ends the loop.
C11_PollersReturn ==
    /\ (poll.pc \notin {"idle", "done"}) ~> (poll.pc = "done")
    /\ [][(poll.pc = "check" /\ now - poll.start_time >= poll.timeout_secs
             /\ poll'.pc # poll.pc)
          => poll'.pc \in {"done", "final"}]_vars

\* A request_position that returned at its deadline with nothing ever ingested.
C11_DeadlineWitness ==
    /\ poll.op = "request_position"
    /\ poll.pc = "done"
    /\ poll.via = "deadline"
    /\ device_state = NewDeviceState

\* C12: a position request_position returns from its polling loop was stored no
\* earlier than the moment the request began, whatever the timeout: never the
\* entry that was cached before the request was sent.
C12_PolledPositionIsNew ==
    (poll.op = "request_position" /\ poll.pc = "done" /\ poll.via = "poll")
        => poll.result[1].last_updated >= poll.began

\* C13: a request_position that finds an entry of the node less than FreshSecs old
\* returns that entry at once and sends nothing; any other goes on to send, and
\* exactly one request has been sent by a call that polls or has polled.
C13_FreshCacheShortCircuits ==
    /\ [][(poll.pc \in {"idle", "done"} /\ poll' # poll /\ poll'.op = "request_position")
          => LET n == poll'.node_num
                 fresh == /\ n \in DOMAIN device_state.positions
                          /\ now - device_state.positions[n].last_updated < FreshSecs
             IN /\ poll'.requests = 0
                /\ IF fresh
                   THEN /\ poll'.pc = "done"
                        /\ poll'.via = "cache"
                        /\ poll'.result = Some(device_state.positions[n])
                   ELSE poll'.pc = "send"]_vars
    /\ [](poll.op = "request_position"
          => poll.requests = IF poll.pc \in {"check", "sleep"} \/ poll.via \in {"poll", "deadline"}
                             THEN 1 ELSE 0)

\* A cached position returned to a caller whose session is not connected.
C13_CachedWithoutSessionWitness ==
    /\ poll.op = "request_position"
    /\ poll.pc = "done"
    /\ poll.via = "cache"
    /\ poll.requests = 0
    /\ ~api

\* C14: a route reply with a non-zero request id whose route waiter is registered
\* and still awaited takes the entry out and delivers one hop per node of the
\* route, in order, numbered from 0, named by the long name nodes holds for the
\* node when the reply is processed or by "Unknown (<8 hex digits>)"; and a
\* send_traceroute that returns after a delivery returns the hops delivered.
C14_RouteReplyHops ==
    /\ [][\A p \in RoutePackets :
            (/\ p.variant = "route_reply"
             /\ p.request_id # 0
             /\ Live(route_waiters, p.request_id)
             /\ IngestPacket(p))
            => /\ p.request_id \notin DOMAIN route_waiters'
               /\ slot'.full
               /\ Len(slot'.hops) = Len(p.route)
               /\ \A i \in 1..Len(p.route) :
                     /\ slot'.hops[i].node_id = p.route[i]
                     /\ slot'.hops[i].hop_number = i - 1
                     /\ slot'.hops[i].node_name =
                           IF p.route[i] \in DOMAIN device_state.nodes
                           THEN device_state.nodes[p.route[i]].user.long_name
                           ELSE <<"Unknown (">> \o Hex8(p.route[i]) \o <<")">>]_vars
    /\ []((kind = "route" /\ pc = "idle" /\ sent /\ slot.full /\ slot.by = "route_reply")
            => outcome = OkHops(slot.hops))

\* A traceroute returned two hops, the first named from nodes, the second by the
\* placeholder.
C14_NamedAndUnknownHopWitness ==
    /\ kind = "route"
    /\ pc = "idle"
    /\ outcome.tag = "ok"
    /\ Len(outcome.hops) = 2
    /\ outcome.hops[1].node_name = <<"Alice">>
    /\ outcome.hops[2].node_name = <<"Unknown (", "0", "0", "0", "0", "0", "0", "1", "a", ")">>

\* C15: a routing packet with an error reason and the request id of a registered,
\* still awaited route waiter takes the entry out and delivers the empty hop list;
\* the send_traceroute it resolves returns Ok with no hops, never an error.
C15_ErrorReasonIsNoRoute ==
    /\ [][\A p \in RoutingPackets :
            (/\ p.variant = "error_reason"
             /\ p.request_id # 0
             /\ Live(route_waiters, p.request_id)
             /\ IngestPacket(p))
            => /\ p.request_id \notin DOMAIN route_waiters'
               /\ slot'.full
               /\ slot'.hops = <<>>]_vars
    /\ []((kind = "route" /\ pc = "idle" /\ sent /\ slot.full /\ slot.by = "error_reason")
            => outcome = OkHops(<<>>))

\* A traceroute resolved by an error reason returned Ok with no hops, its entry gone.
C15_ErrorReasonWitness ==
    /\ kind = "route"
    /\ pc = "idle"
    /\ sent
    /\ slot.by = "error_reason"
    /\ outcome = OkHops(<<>>)
    /\ removed = <<"ingest">>
    /\ request_id \notin DOMAIN route_waiters

\* C16: an operation that needs a session and is invoked without one (before
\* connect or after disconnect) returns the "Not connected" error: the operations
\* over get_api, the config operations, send_text_with_ack, send_traceroute, and a
\* request_position that found no fresh cached position.
C16_NotConnectedError ==
    /\ []((last_call.op \in SessionOps \cup AdminKeyOps \cup {"get_config_value"} /\ ~api)
            => last_call.result = "not_connected")
    /\ [][(pc \in {"ack_registered", "route_registered"} /\ ~api /\ pc' # pc)
          => (pc' = "idle" /\ outcome' = NotConnectedOutcome)]_vars
    /\ [][(poll.pc = "send" /\ ~api /\ poll' # poll)
          => (poll'.pc = "done" /\ poll'.via = "not_connected")]_vars

\* After a disconnect, a config read returned "Not connected", as a traceroute had.
C16_AfterDisconnectWitness ==
    /\ ~api
    /\ last_call.op = "get_config_value"
    /\ last_call.result = "not_connected"
    /\ kind = "route"
    /\ outcome = NotConnectedOutcome
    /\ poll.via = "not_connected"

\* C17: get_config_value returns Ok only for a key of two parts whose category is
\* one of the seven and whose field, in the categories whose fields it knows, is
\* one of them, whether or not a config of the category is cached.
C17_UnknownKeyIsError ==
    (last_call.op = "get_config_value" /\ last_call.result = "ok")
        => /\ Len(last_call.key) = 2
           /\ last_call.key[1] \in ConfigCategories
           /\ last_call.key[1] \in DOMAIN KnownFields
                 => last_call.key[2] \in KnownFields[last_call.key[1]]

\* C18: the first take_packet_receiver after a successful connect, on a session
\* still connected, returns the stream.
C18_FirstTakeSucceeds ==
    (last_call.op = "take_packet_receiver" /\ takes = 1 /\ api) => last_call.result = "ok"

\* C19: while connect() is the last operation that returned: if it returned Ok the
\* session is connected and the ingestion task spawned; if it returned an error
\* the session is not connected and there is no ingestion task.
C19_ConnectResult ==
    last_call.op = "connect"
        => IF last_call.result = "ok"
           THEN api /\ packet_processor
           ELSE ~api /\ ~packet_processor

\* A connect that failed after an earlier session had ingested envelopes.
C19_FailedReconnectWitness ==
    /\ last_call = Called("connect", "connect_err")
    /\ device_state # NewDeviceState
    /\ ~api
    /\ ~packet_processor

NextHealth ==
    \E n \in 0..MaxNeighbors : \E a \in Averages : MeshHealthOf(n, a)

SpecHealth == Init /\ [][NextHealth]_vars

\* C21: processing a decoded position packet of node n that carries coordinates
\* leaves positions[n] with the packet's latitude and longitude over 10^7 and
\* last_updated the wall clock, not the payload's time, and the positions of the
\* other nodes as they were; a get_position(Some(n)) returns what positions holds.
C21_PositionStored ==
    /\ [][\A p \in DataPackets :
            (p.portnum = "position" /\ p.ok /\ p.latlon # None /\ IngestPacket(p))
            => LET new == device_state'.positions
                   old == device_state.positions
               IN /\ DOMAIN new = DOMAIN old \cup {p.from}
                  /\ new[p.from].latitude = [num |-> p.latlon[1][1], den |-> 10000000]
                  /\ new[p.from].longitude = [num |-> p.latlon[1][2], den |-> 10000000]
                  /\ new[p.from].last_updated = now
                  /\ new[p.from].last_updated # p.ptime
                  /\ \A m \in DOMAIN old \ {p.from} : new[m] = old[m]]_vars
    /\ [][\A n \in {26, 27} :
            GetPosition(Some(n))
            => last_call'.value = IF n \in DOMAIN device_state.positions
                                  THEN Some(device_state.positions[n]) ELSE None]_vars

\* get_position returned the coordinates stored for node 27 at the wall clock,
\* while node 26 holds its own.
C21_OverwrittenPositionWitness ==
    /\ last_call.op = "get_position"
    /\ last_call.key = Some(27)
    /\ last_call.value # None
    /\ last_call.value[1].latitude.num = -1
    /\ last_call.value[1].last_updated = now
    /\ 26 \in DOMAIN device_state.positions
    /\ device_state.positions[26].latitude.num = 407000000

\* C23: processing a decoded telemetry packet of node n replaces telemetry[n] by a
\* sample holding the packet's time and only the metric set the packet carries
\* (none for a variant without arm), whatever was stored for n before, and leaves
\* the entries of the other nodes as they were.
C23_TelemetryReplaced ==
    [][\A p \in DataPackets :
         (p.portnum = "telemetry" /\ p.ok /\ IngestPacket(p))
         => LET new == device_state'.telemetry
                old == device_state.telemetry
            IN /\ DOMAIN new = DOMAIN old \cup {p.from}
               /\ new[p.from].time = p.ptime
               /\ new[p.from].device_metrics # None <=> p.metric = "device"
               /\ new[p.from].environment_metrics # None <=> p.metric = "environment"
               /\ new[p.from].air_quality_metrics # None <=> p.metric = "air_quality"
               /\ \A m \in DOMAIN old \ {p.from} : new[m] = old[m]]_vars

\* An environment sample of node 26 is being stored over its device sample: the
\* task is past the handler, the entry holds environment metrics only, and node
\* 27 still holds its device metrics.
C23_ReplacedSampleWitness ==
    /\ ipc = "implicit"
    /\ cur.packet.portnum = "telemetry"
    /\ 26 \in DOMAIN device_state.telemetry
    /\ device_state.telemetry[26].device_metrics = None
    /\ device_state.telemetry[26].environment_metrics # None
    /\ 27 \in DOMAIN device_state.telemetry
    /\ device_state.telemetry[27].device_metrics # None

\* C22: processing a text packet appends one record, with the packet's text and
\* acknowledged false, at the end of messages; every step leaves the messages it
\* found as a prefix of those it leaves, so a snapshot's messages are a prefix of
\* the store's ever after; and no stored message is ever acknowledged, whatever
\* ack entries are resolved.
C22_MessagesAppendOnly ==
    /\ [][\A p \in TextPackets :
            IngestPacket(p)
            => LET new == device_state'.messages
                   old == device_state.messages
               IN /\ Len(new) = Len(old) + 1
                  /\ new[Len(new)].text = p.text
                  /\ new[Len(new)].acknowledged = FALSE]_vars
    /\ [][/\ Len(device_state'.messages) >= Len(device_state.messages)
          /\ SubSeq(device_state'.messages, 1, Len(device_state.messages))
                = device_state.messages]_vars
    /\ [](/\ Len(snap.messages) <= Len(device_state.messages)
          /\ SubSeq(device_state.messages, 1, Len(snap.messages)) = snap.messages)
    /\ [](\A i \in 1..Len(device_state.messages) : ~device_state.messages[i].acknowledged)

\* A snapshot holds the first of two different messages, the second of which
\* resolved an acknowledged send.
C22_SecondMessageWitness ==
    /\ Len(device_state.messages) = 2
    /\ Len(snap.messages) = 1
    /\ device_state.messages[1].text # device_state.messages[2].text
    /\ pc = "idle"
    /\ outcome = OkAck(TRUE)
    /\ slot.by = "text"

\* C24: processing a config response of one of the seven cached categories
\* replaces the cached config of that category by the response's and leaves the
\* six others and the rest of DeviceState as they were; a response of another
\* category, without payload or undecodable changes nothing; and a cached config
\* never becomes absent again.
C24_ConfigReplacedWholesale ==
    /\ [][\A p \in SessionPackets :
            IngestPacket(p)
            => IF p.ok /\ p.config \in ConfigCategories
               THEN /\ device_state'.configs[p.config] = Some(p.value)
                    /\ \A c \in ConfigCategories \ {p.config} :
                          device_state'.configs[c] = device_state.configs[c]
                    /\ [device_state' EXCEPT !.configs = device_state.configs] = device_state
               ELSE device_state' = device_state]_vars
    /\ [][\A c \in ConfigCategories :
            device_state.configs[c] # None => device_state'.configs[c] # None]_vars

\* The lora config a read returned has since been replaced by another, next to a
\* cached device config and no power config.
C24_ReplacedConfigWitness ==
    /\ last_call.op = "get_config_value"
    /\ last_call.key = <<"lora", "region">>
    /\ last_call.value = Some([field |-> "region", of |-> 7])
    /\ device_state.configs["lora"] = Some(8)
    /\ device_state.configs["device"] = Some(7)
    /\ device_state.configs["power"] = None

\* C25: the mesh health is defined for every neighbor count and average SNR:
\* Isolated with no neighbor, Weak with one, and with two or more Excellent when
\* the average is above 5 dB, Good when it is above 0 and at most 5 dB, Fair when
\* it is at most 0 dB or unknown.
C25_MeshHealthTable ==
    last_call.op = "mesh_health"
    => LET neighbors == last_call.key[1]
           average_snr == last_call.key[2]
           health == last_call.value[1]
       IN /\ health \in {"Isolated", "Weak", "Fair", "Good", "Excellent"}
          /\ neighbors = 0 <=> health = "Isolated"
          /\ neighbors = 1 <=> health = "Weak"
          /\ neighbors >= 2
             => /\ health = "Excellent"
                   <=> average_snr # None /\ average_snr[1] > 5 * SnrSteps
                /\ health = "Good"
                   <=> /\ average_snr # None
                       /\ average_snr[1] > 0
                       /\ average_snr[1] <= 5 * SnrSteps
                /\ health = "Fair" <=> (average_snr = None \/ average_snr[1] <= 0)

\* Two neighbors at an average of exactly 5 dB are classified Good.
C25_BoundaryIsGoodWitness ==
    /\ last_call.op = "mesh_health"
    /\ last_call.key = <<2, Some(5 * SnrSteps)>>
    /\ last_call.value = Some("Good")

\* C26: from the registration, which precedes the send, until the wait is
\* resolved or times out, the call's entry is in its registry with a live
\* sender; every lookup of a matching reply in that interval removes the entry
\* and fills the call's channel; and a call whose channel is filled returns the
\* delivered value, never the timeout outcome.
C26_ReplyNeverMissed ==
    /\ [](pc \in {"ack_registered", "ack_wait"} /\ ~slot.full
          => Live(ack_waiters, request_id))
    /\ [](pc \in {"route_registered", "route_wait"} /\ ~slot.full
          => Live(route_waiters, request_id))
    /\ [][(/\ pc = "ack_wait" /\ ~slot.full /\ cur.packet.request_id = request_id
           /\ \/ IngestAckCheck /\ RoutingAckApplies(cur.packet)
              \/ IngestImplicit /\ ImplicitAckApplies(cur.packet))
          => /\ slot'.full /\ slot'.ack
             /\ request_id \notin DOMAIN ack_waiters']_vars
    /\ [][\A p \in CorrPackets :
            (/\ pc = "route_wait" /\ ~slot.full /\ p.request_id = request_id
             /\ p.payload = "decoded" /\ RouteLookupApplies(p)
             /\ IngestPacket(p))
            => /\ slot'.full /\ slot'.hops = RouteResult(device_state, p)
               /\ request_id \notin DOMAIN route_waiters']_vars
    /\ [][(slot.full /\ pc \in {"ack_wait", "route_wait"} /\ pc' # pc)
          => /\ pc' = "idle"
             /\ outcome' = IF kind = "ack" THEN OkAck(slot.ack) ELSE OkHops(slot.hops)]_vars

\* A route reply processed while the caller waits has taken the entry and filled
\* the channel of a traceroute that has not returned yet.
C26_ReplyDuringWaitWitness ==
    /\ pc = "route_wait"
    /\ sent
    /\ slot.full
    /\ slot.by = "route_reply"
    /\ removed = <<"ingest">>
    /\ request_id \notin DOMAIN route_waiters

\* C27: the end of the ingestion task, by disconnect or with its stream, changes
\* neither registry and no call's channel; a wait that is pending while no
\* ingestion task runs stays unresolved with its entry in place, leaves the wait
\* only by its timeout, and then returns the negative or empty outcome with its
\* entry removed; and such a wait does return.
C27_StoppedIngestionNeverResolves ==
    /\ [][(Disconnect \/ StreamEnd)
          => UNCHANGED <<ack_waiters, route_waiters, slot, pc, outcome>>]_vars
    /\ [][(~packet_processor /\ ~slot.full /\ pc \in {"ack_wait", "route_wait"})
          => /\ ~slot'.full
             /\ ~packet_processor'
             /\ \/ pc' = pc /\ UNCHANGED <<ack_waiters, route_waiters>>
                \/ pc = "ack_wait" /\ pc' = "ack_timedout"
                \/ pc = "route_wait" /\ pc' = "route_timedout"]_vars
    /\ [][(~packet_processor /\ pc \in {"ack_timedout", "route_timedout"} /\ pc' # pc)
          => /\ pc' = "idle"
             /\ outcome' = IF kind = "ack" THEN OkAck(FALSE) ELSE OkHops(<<>>)
             /\ request_id \notin DOMAIN (IF kind = "ack" THEN ack_waiters'
                                           ELSE route_waiters')]_vars
    /\ (~packet_processor /\ ~slot.full /\ pc \in {"ack_wait", "route_wait"})
       ~> (pc = "idle" /\ outcome \in {OkAck(FALSE), OkHops(<<>>)})

\* An acknowledged send whose wait outlived the inbound stream has returned
\* false on its timeout, on a session that was never disconnected.
C27_TimedOutAfterStreamEndWitness ==
    /\ api
    /\ ~packet_processor
    /\ kind = "ack"
    /\ pc = "idle"
    /\ sent
    /\ ~hit
    /\ removed = <<"caller">>
    /\ outcome = OkAck(FALSE)

\* C28: the two registries are independent: no step of a call of one kind changes
\* the other kind's registry, the route lookup of an envelope leaves ack_waiters
\* and its ack check leaves route_waiters unchanged, and the envelope that has
\* just resolved the pending traceroute X in route_waiters leaves the entry for
\* X in ack_waiters as it is.
C28_RegistriesIndependent ==
    /\ [][pc' # pc => /\ kind' = "ack" => UNCHANGED route_waiters
                      /\ kind' = "route" => UNCHANGED ack_waiters]_vars
    /\ [][(ipc = "recv" /\ ipc' # "recv") => UNCHANGED ack_waiters]_vars
    /\ [][(ipc = "ack_check" /\ ipc' = "implicit") => UNCHANGED route_waiters]_vars
    /\ [][(/\ kind = "route" /\ pc = "route_wait"
           /\ slot.full /\ removed = <<"ingest">>
           /\ ipc = "ack_check" /\ ipc' = "implicit"
           /\ RouteLookupApplies(cur.packet)
           /\ cur.packet.request_id = request_id
           /\ cur.packet.variant = slot.by)
          => (request_id \in DOMAIN ack_waiters <=> request_id \in DOMAIN ack_waiters')]_vars

\* C29: neither task ever holds the ack_waiters and the route_waiters lock
\* together; a task that holds a lock takes a further one only in one case, the
\* DeviceState lock while it holds the route_waiters lock alone; no lock has two
\* holders; and the two tasks are never each waiting for a lock the other holds.
C29_NoDeadlock ==
    /\ [](\A held \in {CallerHolds, IngestHolds} :
            ~({"ack_waiters", "route_waiters"} \subseteq held))
    /\ [](CallerHolds \cap IngestHolds = {})
    /\ [][/\ (CallerHolds # {} /\ CallerHolds' # CallerHolds) => CallerHolds' = {}
          /\ (IngestHolds # {} /\ ~(IngestHolds' \subseteq IngestHolds))
             => /\ IngestHolds = {"route_waiters"}
                /\ IngestHolds' = {"route_waiters", "device_state"}]_vars
    /\ [](~(/\ CallerWants # {} /\ CallerWants \subseteq IngestHolds
            /\ IngestWants # {} /\ IngestWants \subseteq CallerHolds))
    /\ [](CallerHolds # {} => CallerWants = {})

\* The ingestion task holds the route_waiters and the DeviceState lock for the
\* second hop of a route reply while the caller, timed out, waits for route_waiters.
C29_NestedLockWitness ==
    /\ ipc = HopLockedAt(1)
    /\ IngestHolds = {"route_waiters", "device_state"}
    /\ pc = "route_timedout"
    /\ CallerWants \subseteq IngestHolds

\* C30: no step of a caller-invoked operation changes DeviceState, and no session
\* step does; set_config_value returns in its one step, with a final result, and
\* leaves the cached configs and both registries as they were.
C30_OnlyIngestionWrites ==
    /\ [][(CallerStep \/ Connect \/ Disconnect) => UNCHANGED device_state]_vars
    /\ [][device_state' # device_state
          => packet_processor /\ ipc = "recv" /\ UNCHANGED <<pc, poll, last_call, snap>>]_vars
    /\ [][\A i \in SetConfigInputs :
            SetConfigValue(i[1], i[2])
            => /\ last_call'.result # "pending"
               /\ CallerIdle'
               /\ UNCHANGED <<device_state, ack_waiters, route_waiters>>]_vars

\* set_config_value has returned Ok for lora.region while the cached lora config
\* is still the one an earlier response brought.
C30_SetLeavesCacheWitness ==
    /\ last_call.op = "set_config_value"
    /\ last_call.key = <<"lora", "region">>
    /\ last_call.result = "ok"
    /\ device_state.configs["lora"] = Some(7)
    /\ device_state.configs["device"] = None

\* An envelope process_mesh_packet has no use for: without payload, encrypted, of
\* a port without arm, or of a decoding port with a payload that does not decode.
SilentlyDropped(p) ==
    \/ p.payload # "decoded"
    \/ p.portnum \notin {"text", "position", "telemetry", "admin", "routing"}
    \/ (p.portnum \in {"position", "telemetry", "admin", "routing"} /\ ~p.ok)

\* C31: processing an envelope without payload, encrypted, of an unhandled port,
\* or whose position, telemetry, admin or routing payload does not decode leaves
\* the DeviceState as it was, with its lock free, and the task goes on (no error
\* ends or diverts it); the checks that follow the port handler write nothing to
\* the DeviceState either.
C31_DroppedEnvelopeLeavesState ==
    /\ [][\A p \in IngestPackets :
            (SilentlyDropped(p) /\ IngestPacket(p))
            => /\ device_state' = device_state
               /\ committed' = committed
               /\ ~state_locked'
               /\ packet_processor'
               /\ ipc' = (IF p.payload # "decoded" THEN "recv"
                          ELSE IF p.portnum = "routing" THEN "ack_check" ELSE "implicit")]_vars
    /\ [][(IngestAckCheck \/ IngestImplicit)
          => (device_state' = device_state /\ packet_processor' /\ ~state_locked')]_vars

\* The task is past the port handler of a telemetry packet that did not decode:
\* a config is cached, and no telemetry is.
C31_UndecodableTelemetryWitness ==
    /\ packet_processor
    /\ ipc = "implicit"
    /\ cur.packet.portnum = "telemetry"
    /\ device_state.telemetry = EmptyMap
    /\ device_state.configs["lora"] # None

\* The ids of the ack runs, and their envelopes: routing packets with an error
\* reason or without variant and packets of a port without handler, carrying
\* either id as request id, with a packet id of their own or none.
AckIds == {1, 2}
AckPackets ==
    {[DecodedPacket(port, rid, pid, FALSE) EXCEPT
         !.variant = IF port = "routing" THEN v ELSE "none",
         !.ok = (port = "routing" /\ v # "none")] :
       port \in {"routing", "other"}, v \in {"error_reason", "none"},
       rid \in AckIds, pid \in {0, 1}}

\* send_text_with_ack under two ids against acks carrying either.
NextAck ==
    \/ Connect
    \/ Disconnect
    \/ \E id \in AckIds : AckRegister(id)
    \/ AckNotConnected
    \/ AckSendFail
    \/ AckSendOk
    \/ AckWaitDone
    \/ AckTimeout
    \/ AckCleanup
    \/ \E p \in AckPackets : IngestPacket(p)
    \/ IngestAckCheck
    \/ IngestImplicit

SpecAck == Init /\ [][NextAck]_vars

\* C32: the channel of a send_text_with_ack call is filled only by an ack check
\* of the ingestion task on a decoded envelope whose request id is the issued
\* id, made after the call registered and before its timeout was taken; an
\* envelope carrying another id leaves the call's channel and entry alone; the
\* call returns true only from a filled channel, and its timeout path returns
\* false.
C32_TrueOnlyByMatchingEnvelope ==
    /\ [][(~slot.full /\ slot'.full)
          => /\ pc \in {"ack_registered", "ack_wait"}
             /\ pc' = pc
             /\ (IngestAckCheck \/ IngestImplicit)
             /\ cur.kind = "packet"
             /\ cur.packet.payload = "decoded"
             /\ cur.packet.request_id = request_id
             /\ slot'.ack]_vars
    /\ [][((IngestAckCheck \/ IngestImplicit) /\ cur.packet.request_id # request_id)
          => /\ slot' = slot
             /\ (request_id \in DOMAIN ack_waiters') = (request_id \in DOMAIN ack_waiters)]_vars
    /\ [][(outcome' # outcome /\ outcome' = OkAck(TRUE))
          => (pc = "ack_wait" /\ slot.full /\ slot.ack /\ hit /\ removed = <<"ingest">>)]_vars
    /\ [][(pc = "ack_timedout" /\ pc' # pc) => outcome' = OkAck(FALSE)]_vars
    /\ [](pc = "ack_timedout" => ~slot.full)

\* The call under id 1 returned true, resolved by an envelope, while an entry of
\* an earlier call under id 2 is still registered.
C32_TrueWithOtherEntryWitness ==
    /\ pc = "idle"
    /\ kind = "ack"
    /\ request_id = 1
    /\ outcome = OkAck(TRUE)
    /\ hit
    /\ 2 \in DOMAIN ack_waiters

\* Both correlated calls under id 0 and under id 1 against replies, acks and
\* unrelated packets that carry request id 0 or 1.
NextZero ==
    \/ Connect
    \/ Disconnect
    \/ \E id \in {0, 1} : AckRegister(id)
    \/ AckNotConnected
    \/ AckSendFail
    \/ AckSendOk
    \/ AckWaitDone
    \/ AckTimeout
    \/ AckCleanup
    \/ \E id \in {0, 1} : RouteRegister(id)
    \/ RouteNotConnected
    \/ RouteSendFail
    \/ RouteSendOk
    \/ RouteWaitDone
    \/ RouteTimeout
    \/ RouteCleanup
    \/ \E p \in ReplyPackets : IngestPacket(p)
    \/ IngestAckCheck
    \/ IngestImplicit

SpecZero == Init /\ [][NextZero]_vars

\* The timer of tokio::time::timeout fires and the caller's task is scheduled.
FairSpecZero ==
    /\ SpecZero
    /\ WF_vars(AckTimeout) /\ WF_vars(AckCleanup)
    /\ WF_vars(RouteTimeout) /\ WF_vars(RouteCleanup)

\* C33: a call may be issued under id 0; while such a call is in progress its
\* channel is never filled, whatever envelopes are processed (those carrying
\* request id 0 included); its wait is left only by the timeout, which returns
\* false or the empty hop list; and a waiting call under id 0 does so return.
C33_ZeroIdOnlyTimesOut ==
    /\ []((pc # "idle" /\ request_id = 0) => ~slot.full)
    /\ []((pc \in {"ack_registered", "ack_wait"} /\ request_id = 0)
            => Live(ack_waiters, 0))
    /\ []((pc \in {"route_registered", "route_wait"} /\ request_id = 0)
            => Live(route_waiters, 0))
    /\ [][(request_id = 0 /\ pc \in {"ack_wait", "route_wait"} /\ pc' # pc)
          => pc' = (IF kind = "ack" THEN "ack_timedout" ELSE "route_timedout")]_vars
    /\ [][(request_id = 0 /\ pc \in {"ack_timedout", "route_timedout"} /\ pc' # pc)
          => /\ pc' = "idle"
             /\ outcome' = (IF kind = "ack" THEN OkAck(FALSE) ELSE OkHops(<<>>))]_vars
    /\ ((request_id = 0 /\ pc \in {"ack_wait", "route_wait"})
          ~> (request_id = 0 /\ pc = "idle" /\ outcome.tag = "ok" /\ ~outcome.ack
              /\ outcome.hops = <<>>))

\* A traceroute under id 0 has timed out although a decoded envelope carrying
\* request id 0 was processed during the call.
C33_ZeroIdReplyIgnoredWitness ==
    /\ pc = "idle"
    /\ kind = "route"
    /\ request_id = 0
    /\ sent
    /\ hit
    /\ outcome = OkHops(<<>>)
    /\ removed = <<"caller">>

\* The envelopes of the telemetry runs, all from node 26: device metrics with a
\* device clock at zero or ahead, an environment sample, a sample without
\* variant, one of a variant without arm, and a payload that does not decode.
TelemetryPackets ==
    {[DecodedPacket("telemetry", 0, 0, FALSE) EXCEPT
         !.metric = "device", !.value = 7, !.ptime = pt] : pt \in {0, MaxTime}}
    \cup {[DecodedPacket("telemetry", 0, 0, FALSE) EXCEPT
              !.metric = m, !.value = 8, !.ptime = MaxTime] :
            m \in {"environment", "none", "power"}}
    \cup {[DecodedPacket("telemetry", 0, 0, FALSE) EXCEPT !.metric = "device", !.ok = FALSE]}

\* collect_telemetry against telemetry of the local node being ingested.
NextTelemetry ==
    \/ Connect
    \/ Disconnect
    \/ Tick
    \/ \E t \in Timeouts : CollectTelemetryBegin(t)
    \/ CollectTelemetryPoll
    \/ CollectTelemetryFinal
    \/ PollSleep
    \/ \E p \in TelemetryPackets : IngestPacket(p)
    \/ IngestImplicit
    \/ \E m \in PollMyInfos : IngestMyInfo(m)

SpecTelemetry == Init /\ [][NextTelemetry]_vars

\* A telemetry sample without any metric set.
EmptySample(p) ==
    [node_num |-> p.from, time |-> p.ptime, device_metrics |-> None,
     environment_metrics |-> None, air_quality_metrics |-> None]

\* C34: processing a decoded telemetry packet of node n that carries no variant,
\* or a variant other than device, environment or air-quality metrics, stores
\* under n a sample with the packet's time and no metric set, in place of
\* whatever was cached for n.
C34_VariantlessSampleReplaces ==
    [][\A p \in TelemetryPackets :
         (/\ p.ok
          /\ p.metric \notin {"device", "environment", "air_quality"}
          /\ IngestPacket(p))
         => /\ p.from \in DOMAIN device_state'.telemetry
            /\ device_state'.telemetry[p.from] = EmptySample(p)
            /\ DeviceMetricsOf(device_state', p.from) = None]_vars

\* A collect_telemetry call that found device metrics of the local node cached
\* when it started is in progress, and the task is past the handler of a sample
\* without variant: the entry of node 26 holds no metric set any more.
C34_CachedMetricsLostWitness ==
    /\ poll.op = "collect_telemetry"
    /\ poll.pc \in {"check", "sleep"}
    /\ poll.initial_time # None
    /\ ipc = "implicit"
    /\ cur.packet.portnum = "telemetry"
    /\ 26 \in DOMAIN device_state.telemetry
    /\ device_state.telemetry[26].device_metrics = None
    /\ device_state.telemetry[26].environment_metrics = None
    /\ device_state.telemetry[26].air_quality_metrics = None

\* C35: a collect_telemetry call that found device metrics of the local node
\* cached when it started returns Some(metrics), never None, whatever is ingested
\* during the wait; and a call returns without entering its loop only when the
\* local node identity is unknown, and then with None.
C35_CachedMetricsNeverNone ==
    /\ []((poll.op = "collect_telemetry" /\ poll.pc = "done" /\ poll.initial_time # None)
            => poll.result # None)
    /\ [][(poll.pc \in {"idle", "done"} /\ poll' # poll /\ poll'.op = "collect_telemetry"
             /\ poll'.pc = "done")
          => (device_state.my_node_info = None /\ poll'.result = None)]_vars

\* The envelopes of the collecting runs: positions of node 26 with two coordinate
\* pairs, a position of node 27, and a position payload that does not decode.
CollectPackets ==
    {[DecodedPacket("position", 0, 0, FALSE) EXCEPT !.from = 26, !.latlon = ll] :
       ll \in {Some(<<407000000, 20>>), Some(<<-1, 3>>)}}
    \cup {[DecodedPacket("position", 0, 0, FALSE) EXCEPT
              !.from = 27, !.latlon = Some(<<407000000, 20>>), !.ok = ok] : ok \in BOOLEAN}

\* collect_positions against positions being ingested.
NextCollect ==
    \/ Connect
    \/ Disconnect
    \/ Tick
    \/ \E t \in Timeouts : CollectPositionsBegin(t)
    \/ CollectPositionsPoll
    \/ CollectPositionsFinal
    \/ PollSleep
    \/ \E p \in CollectPackets : IngestPacket(p)
    \/ IngestImplicit

SpecCollect == Init /\ [][NextCollect]_vars

\* C36: collect_positions leaves its loop only once the wait period is over, and
\* returns the positions Device State holds at its final read: an entry for
\* every node with a cached position, each the position cached at that read.
C36_ReturnsFinalPositions ==
    /\ [][(poll.op = "collect_positions" /\ poll.pc = "check" /\ poll'.pc = "final")
          => now - poll.start_time >= poll.timeout_secs]_vars
    /\ [][(poll.op = "collect_positions" /\ poll.pc = "final" /\ poll'.pc = "done")
          => /\ DOMAIN poll'.result[1] = DOMAIN device_state.positions
             /\ poll'.result = Some(device_state.positions)]_vars

\* The envelopes of the growth runs: a text, positions of nodes 26 and 27, device
\* metrics of node 26; two identities of node 26; two records of channel 0; the
\* local identity.
GrowPackets ==
    {[DecodedPacket("text", 0, 0, FALSE) EXCEPT !.text = <<"hi">>],
     [DecodedPacket("telemetry", 0, 0, FALSE) EXCEPT !.metric = "device", !.value = 7]}
    \cup {[DecodedPacket("position", 0, 0, FALSE) EXCEPT
              !.from = f, !.latlon = Some(<<407000000, 20>>)] : f \in {26, 27}}

GrowNodeInfos == {n \in NodeInfos : n.num = 26 /\ n.user # None}

GrowChannels == {c \in Channels : c.index = 0 /\ c.settings = None}

\* Nothing but positions has been stored, and no snapshot taken.
OnlyPositionsYet ==
    /\ device_state = [NewDeviceState EXCEPT !.positions = device_state.positions]
    /\ snap = NewDeviceState

\* Snapshots against envelopes of every stored kind, and collect_positions
\* against positions, in runs that stay with one of the two (they share nothing
\* but the session and the DeviceState they read); the clock matters to the
\* collecting call only, and advances while one is in progress.
NextGrow ==
    \/ Connect
    \/ Disconnect
    \/ NoPollYet /\ GetDeviceState
    \/ poll.pc \notin {"idle", "done"} /\ Tick
    \/ OnlyPositionsYet /\ \E t \in Timeouts : CollectPositionsBegin(t)
    \/ CollectPositionsPoll
    \/ CollectPositionsFinal
    \/ PollSleep
    \/ \E p \in GrowPackets :
          /\ p.portnum # "position" => NoPollYet
          /\ p.portnum = "text" => Len(device_state.messages) < MaxMessages
          /\ IngestPacket(p)
    \/ IngestImplicit
    \/ NoPollYet /\ \E n \in GrowNodeInfos : IngestNodeInfoBegin(n)
    \/ IngestNodeInfoEnd
    \/ NoPollYet /\ \E c \in GrowChannels : IngestChannelBegin(c)
    \/ IngestChannelEnd
    \/ NoPollYet /\ \E m \in MyInfos : IngestMyInfo(m)

SpecGrow == Init /\ [][NextGrow]_vars

\* DeviceState b has at least the keys and lengths of a.
Grows(a, b) ==
    /\ DOMAIN a.nodes \subseteq DOMAIN b.nodes
    /\ DOMAIN a.positions \subseteq DOMAIN b.positions
    /\ DOMAIN a.telemetry \subseteq DOMAIN b.telemetry
    /\ Len(a.messages) <= Len(b.messages)
    /\ Len(a.channels) <= Len(b.channels)
    /\ (a.my_node_info # None => b.my_node_info # None)

\* C37: no step removes a key from nodes, positions or telemetry, shortens
\* messages or channels, or clears the local identity; the store has at least the
\* keys and lengths of every snapshot taken before, and so has every later
\* snapshot; and the count of new entries collect_positions computes, the size of
\* its result minus the size of positions at its start, is never negative.
C37_StoreOnlyGrows ==
    /\ [][Grows(device_state, device_state')]_vars
    /\ [](Grows(snap, device_state))
    /\ [][Grows(snap, snap')]_vars
    /\ [][(poll.op = "collect_positions" /\ poll.pc = "final" /\ poll'.pc = "done")
          => /\ poll.initial_count <= Cardinality(DOMAIN device_state.positions)
             /\ NewCount(poll'.result[1], poll.initial_count) >= 0]_vars

\* collect_positions returned one entry more than positions held when it
\* started.
C37_GrownDuringCollectWitness ==
    /\ poll.op = "collect_positions"
    /\ poll.pc = "done"
    /\ poll.initial_count = 1
    /\ NewCount(poll.result[1], poll.initial_count) = 1

\* The identities of the session runs: two of node 26.
LifeNodeInfos == {n \in NodeInfos : n.num = 26 /\ n.user # None}

\* A manager's life: connects that succeed and fail, disconnects that succeed
\* and fail, at any moment and in any number, the stream ending, identities
\* being ingested, and snapshots.
NextLife ==
    \/ Connect
    \/ ConnectFail
    \/ Disconnect
    \/ DisconnectErr
    \/ StreamEnd
    \/ GetDeviceState
    \/ \E p \in GrowPackets :
          (p.portnum = "text" => Len(device_state.messages) < MaxMessages) /\ IngestPacket(p)
    \/ IngestImplicit
    \/ \E n \in LifeNodeInfos : IngestNodeInfoBegin(n)
    \/ IngestNodeInfoEnd
    \/ \E m \in MyInfos : IngestMyInfo(m)

SpecLife == Init /\ [][NextLife]_vars

\* C38: disconnect() can be called in any session state, connected or not;
\* whatever it returns, afterwards the manager is not connected and no ingestion
\* task runs; on a manager that is not connected it returns Ok and changes
\* nothing else; it never changes the cached Device State, the registries or a
\* snapshot already taken; and after it get_device_state still returns the
\* cached Device State.
C38_DisconnectIdempotent ==
    /\ []((CallerIdle /\ ~state_locked) => ENABLED Disconnect)
    /\ [][(Disconnect \/ DisconnectErr)
          => /\ ~api' /\ ~packet_processor'
             /\ UNCHANGED <<device_state, committed, ack_waiters, route_waiters, snap,
                            packet_receiver>>]_vars
    /\ [][(last_call' # last_call /\ last_call'.op = "disconnect" /\ ~api)
          => /\ last_call' = Called("disconnect", "ok")
             /\ (~packet_processor => UNCHANGED <<corrVars, storeVars, readerVars, poll,
                                                   packet_receiver, takes, now, ipc, cur,
                                                   api, packet_processor>>)]_vars
    /\ []((~api /\ ~packet_processor /\ pc = "idle") => ENABLED GetDeviceState)
    /\ [][(GetDeviceState /\ snap' # snap) => snap' = device_state]_vars

\* After a disconnect the manager is not connected, no task runs, and the last
\* snapshot is the cached Device State, which holds what was ingested.
C38_ReadableAfterDisconnectWitness ==
    /\ last_call = Called("disconnect", "ok")
    /\ ~api
    /\ ~packet_processor
    /\ device_state.my_node_info # None
    /\ 26 \in DOMAIN device_state.nodes
    /\ device_state.messages # <<>>
    /\ snap = device_state

\* The identities of the statistics runs: three nodes, with and without a user.
StatsNodeInfos == {n \in NodeInfos : n.last_heard = 100}

\* get_network_stats and get_topology against identities, the local identity and
\* positions being ingested.
NextStats ==
    \/ Connect
    \/ Disconnect
    \/ GetNetworkStats
    \/ GetTopology
    \/ \E n \in StatsNodeInfos : IngestNodeInfoBegin(n)
    \/ IngestNodeInfoEnd
    \/ \E m \in MyInfos : IngestMyInfo(m)
    \/ \E p \in {q \in GrowPackets : q.portnum = "position"} : IngestPacket(p)
    \/ IngestImplicit

SpecStats == Init /\ [][NextStats]_vars

\* C39: every node record of the store has an SNR and the RSSI 0, while it is
\* being overwritten too; get_network_stats reports as many neighbors as nodes,
\* and a mesh health other than Isolated once a node is known; get_topology has
\* one edge for every node.
C39_EveryNodeIsNeighbor ==
    /\ [](\A n \in DOMAIN device_state.nodes :
            device_state.nodes[n].snr # None /\ device_state.nodes[n].rssi = Some(0))
    /\ [](last_call.op = "get_network_stats"
          => LET v == last_call.value[1]
             IN /\ v.neighbors = v.total_nodes
                /\ (v.total_nodes >= 1 => v.mesh_health # "Isolated")
                /\ (v.total_nodes = 0 => v.mesh_health = "Isolated"))
    /\ [](last_call.op = "get_topology"
          => LET v == last_call.value[1]
             IN /\ Cardinality(v.edges) = v.total_nodes
                /\ {e.to : e \in v.edges} = {m.id : m \in v.nodes})

\* get_network_stats has returned for a store of three nodes, none with a
\* position: three neighbors, the health that of a zero average SNR.
C39_ThreeNeighborsWitness ==
    /\ last_call.op = "get_network_stats"
    /\ last_call.value[1].total_nodes = 3
    /\ last_call.value[1].neighbors = 3
    /\ last_call.value[1].mesh_health = "Fair"
    /\ device_state.positions = EmptyMap
====
